---- MODULE Spec2Model ----
(***************************************************************************)
(* A model of the incremental Cassowary solver of am_cassowary.h: the      *)
(* symbol-keyed hash table, the row algebra, the variable and constraint   *)
(* registry, the tableau with its primal and dual simplex loops, and the   *)
(* public operations.                                                      *)
(*                                                                         *)
(* amcw_Num (a double) is modelled by exact rationals <<n, d>> in lowest   *)
(* terms with d > 0; rounding is not modelled.  AMCW_NUM_MAX is the        *)
(* rational <<1, 0>>.  Byte offsets into a table (lastfree, next) are      *)
(* counted in slots, slot i of a table being hash[i + 1].  A pointer to a  *)
(* pooled object is its index in the pool, 0 being NULL.                   *)
(***************************************************************************)
EXTENDS Integers, Sequences, FiniteSets, TLC

AMCW_OK == 0
AMCW_FAILED == -1
AMCW_UNSATISFIED == -2
AMCW_UNBOUND == -3

AMCW_LESSEQUAL == 1
AMCW_EQUAL == 2
AMCW_GREATEQUAL == 3

AMCW_REQUIRED == 1000000000
AMCW_STRONG == 1000000
AMCW_MEDIUM == 1000
AMCW_WEAK == 1

AMCW_EXTERNAL == 0
AMCW_SLACK == 1
AMCW_ERROR == 2
AMCW_DUMMY == 3

AMCW_MIN_HASHSIZE == 4

\* AMCW_NUM_EPS is 1 / EpsDen
EpsDen == 1000000

\* the largest symbol id, 0x3FFFFFFF
MaxSymbolId == 1073741823

\* the pivots one call of a simplex loop may take in the model
MaxPivots == 8

-----------------------------------------------------------------------------
(* amcw_Num *)

\* With([x \in {e} |-> F]) is F with x naming the value of e
With(f) == f[CHOOSE x \in DOMAIN f : TRUE]

Abs(n) == IF n < 0 THEN -n ELSE n

RECURSIVE Gcd(_, _)
Gcd(a, b) == IF b = 0 THEN a ELSE Gcd(b, a % b)

Num(n, d) ==
    With([g \in {Gcd(Abs(n), Abs(d))} |->
    With([s \in {IF d < 0 THEN -1 ELSE 1} |->
        <<(s * n) \div g, (s * d) \div g>>])])

R(n) == <<n, 1>>
AMCW_NUM_MAX == <<1, 0>>

NumAdd(a, b) ==
    With([g \in {Gcd(a[2], b[2])} |->
        IF g = 0 THEN Num(a[1] * b[2] + b[1] * a[2], a[2] * b[2])
        ELSE Num(a[1] * (b[2] \div g) + b[1] * (a[2] \div g),
                 (a[2] \div g) * b[2])])
NumNeg(a) == <<-a[1], a[2]>>
NumSub(a, b) == NumAdd(a, NumNeg(b))
NumMul(a, b) ==
    With([g \in {Gcd(Abs(a[1]), b[2])} |->
    With([h \in {Gcd(Abs(b[1]), a[2])} |->
        IF g = 0 \/ h = 0 THEN Num(a[1] * b[1], a[2] * b[2])
        ELSE Num((a[1] \div g) * (b[1] \div h), (a[2] \div h) * (b[2] \div g))])])
NumDiv(a, b) ==
    IF b[1] < 0 THEN NumMul(a, <<-b[2], -b[1]>>) ELSE NumMul(a, <<b[2], b[1]>>)
NumLt(a, b) == a[1] * b[2] < b[1] * a[2]
NumLe(a, b) == a[1] * b[2] <= b[1] * a[2]
NumAbs(a) == <<Abs(a[1]), a[2]>>

\* |a| < AMCW_NUM_EPS, for a finite a
BelowEps(a) == a[1] = 0 \/ Abs(a[1]) <= (a[2] - 1) \div EpsDen

amcw_approx(a, b) ==
    IF a = b THEN TRUE
    ELSE IF a[2] = 0 \/ b[2] = 0 THEN FALSE
    ELSE IF NumLt(b, a) THEN BelowEps(NumSub(a, b)) ELSE BelowEps(NumSub(b, a))

amcw_nearzero(a) == amcw_approx(a, R(0))

-----------------------------------------------------------------------------
(* symbols *)

amcw_null == [id |-> 0, type |-> 0]

amcw_isexternal(key) == key.type = AMCW_EXTERNAL
amcw_isslack(key) == key.type = AMCW_SLACK
amcw_iserror(key) == key.type = AMCW_ERROR
amcw_isdummy(key) == key.type = AMCW_DUMMY
\* amcw_ispivotable taking a Dummy symbol for pivotable too
amcw_ispivotable_any(key) == key.id # 0

amcw_ispivotable(key) == amcw_isslack(key) \/ amcw_iserror(key)

-----------------------------------------------------------------------------
(* hash table *)

amcw_inittable(entry_size) ==
    [size |-> 0, count |-> 0, entry_size |-> entry_size, lastfree |-> 0,
     hash |-> <<>>]

\* the payload of an entry after memset(.., 0, ..)
ZeroPayload(entry_size) ==
    CASE entry_size = "amcw_Term" -> R(0)
      [] entry_size = "amcw_Row" ->
            [infeasible_next |-> amcw_null,
             terms |-> [size |-> 0, count |-> 0, entry_size |-> "",
                        lastfree |-> 0, hash |-> <<>>],
             constant |-> R(0)]
      [] OTHER -> 0

ZeroEntry(entry_size) ==
    [next |-> 0, key |-> amcw_null, val |-> ZeroPayload(entry_size)]

\* amcw_delkey clearing the chain link of the entry as well
amcw_delkey_unlink(t, e) ==
    [t EXCEPT !.hash[e + 1].key = amcw_null, !.hash[e + 1].next = 0,
              !.count = @ - 1]

amcw_delkey(t, e) ==
    [t EXCEPT !.hash[e + 1].key = amcw_null, !.count = @ - 1]

amcw_mainposition(t, key) == key.id % t.size

amcw_resettable(t) ==
    [t EXCEPT !.count = 0, !.lastfree = t.size,
              !.hash = [i \in 1..t.size |-> ZeroEntry(t.entry_size)]]

RECURSIVE HashSizeLoop(_, _)
HashSizeLoop(newsize, len) ==
    IF newsize < len THEN HashSizeLoop(newsize * 2, len) ELSE newsize

amcw_hashsize(t, len) == HashSizeLoop(AMCW_MIN_HASHSIZE, len)

amcw_freetable(t) == amcw_inittable(t.entry_size)

\* the scan "while (t->lastfree > 0)" of amcw_newkey: the new lastfree and
\* the free slot f found (-1 for NULL)
RECURSIVE FreeScan(_, _)
FreeScan(t, lastfree) ==
    IF lastfree > 0
    THEN With([e \in {t.hash[lastfree]} |->
             IF e.key.id = 0 /\ e.next = 0
             THEN [lastfree |-> lastfree - 1, f |-> lastfree - 1]
             ELSE FreeScan(t, lastfree - 1)])
    ELSE [lastfree |-> 0, f |-> -1]

\* the walk "while ((next = index(othern, othern->next)) != mp)"
RECURSIVE ChainPrev(_, _, _)
ChainPrev(t, othern, mp) ==
    With([next \in {othern + t.hash[othern + 1].next} |->
        IF next = mp THEN othern ELSE ChainPrev(t, next, mp)])

RECURSIVE amcw_newkey(_, _)
RECURSIVE amcw_resizetable(_, _)
RECURSIVE ResizeLoop(_, _, _)

\* the result is the table and the slot e of the new key
amcw_newkey(t0, key) ==
    With([t \in {IF t0.size = 0 THEN amcw_resizetable(t0, AMCW_MIN_HASHSIZE) ELSE t0} |->
    With([mp \in {amcw_mainposition(t, key)} |->
    With([M \in {t.hash[mp + 1]} |->
        IF M.key.id = 0
        THEN [t |-> [t EXCEPT !.hash[mp + 1].key = key], e |-> mp]
        ELSE
          With([scan \in {FreeScan(t, t.lastfree)} |->
          With([t1 \in {[t EXCEPT !.lastfree = scan.lastfree]} |->
          With([f \in {scan.f} |->
              IF f = -1
              THEN amcw_newkey(amcw_resizetable(t1, t1.count * 2), key)
              ELSE
                With([othern \in {amcw_mainposition(t1, M.key)} |->
                    IF othern # mp
                    THEN
                      With([p \in {ChainPrev(t1, othern, mp)} |->
                          [t |-> [t1 EXCEPT
                                    !.hash[p + 1].next = f - p,
                                    !.hash[f + 1] =
                                        [M EXCEPT !.next =
                                            IF M.next # 0
                                            THEN M.next + (mp - f) ELSE 0],
                                    !.hash[mp + 1] =
                                        [M EXCEPT !.next = 0, !.key = key]],
                           e |-> mp]])
                    ELSE
                      [t |-> [t1 EXCEPT
                                !.hash[f + 1] =
                                    [@ EXCEPT !.next =
                                        IF M.next # 0
                                        THEN (mp - f) + M.next ELSE @,
                                              !.key = key],
                                !.hash[mp + 1].next = f - mp],
                       e |-> f]])])])])])])])

ResizeLoop(t, nt, i) ==
    IF i >= t.size THEN nt
    ELSE With([e \in {t.hash[i + 1]} |->
             IF e.key.id # 0
             THEN With([r \in {amcw_newkey(nt, e.key)} |->
                      ResizeLoop(t, [r.t EXCEPT !.hash[r.e + 1].val = e.val],
                                 i + 1)])
             ELSE ResizeLoop(t, nt, i + 1)])

amcw_resizetable(t, len) ==
    With([size \in {amcw_hashsize(t, len)} |->
        ResizeLoop(t,
                   [t EXCEPT !.size = size, !.lastfree = size,
                             !.hash = [i \in 1..size |-> ZeroEntry(t.entry_size)]],
                   0)])

\* the slot of key, -1 for NULL
RECURSIVE GetLoop(_, _, _)
GetLoop(t, key, e) ==
    IF t.hash[e + 1].key.id = key.id THEN e
    ELSE IF t.hash[e + 1].next = 0 THEN -1
    ELSE GetLoop(t, key, e + t.hash[e + 1].next)

amcw_gettable(t, key) ==
    IF t.size = 0 \/ key.id = 0 THEN -1
    ELSE GetLoop(t, key, amcw_mainposition(t, key))

amcw_settable(t, key) ==
    With([e \in {amcw_gettable(t, key)} |->
        IF e # -1 THEN [t |-> t, e |-> e]
        ELSE With([r \in {amcw_newkey(t, key)} |->
                 [t |-> [r.t EXCEPT !.hash[r.e + 1].val = ZeroPayload(t.entry_size),
                                    !.count = @ + 1],
                  e |-> r.e]])])

\* the slot after e (e = -1 for NULL) that holds a key, -1 at the end
RECURSIVE NextLoop(_, _)
NextLoop(t, e) ==
    IF e >= t.size THEN -1
    ELSE IF t.hash[e + 1].key.id # 0 THEN e
    ELSE NextLoop(t, e + 1)

amcw_nextentry(t, e) == NextLoop(t, e + 1)

\* the slots amcw_nextentry yields from a table that the loop body leaves
\* alone, in order
RECURSIVE EntriesFrom(_, _)
EntriesFrom(t, e) ==
    With([n \in {amcw_nextentry(t, e)} |->
        IF n = -1 THEN <<>> ELSE <<n>> \o EntriesFrom(t, n)])

Entries(t) == EntriesFrom(t, -1)

-----------------------------------------------------------------------------
(* expression (row): the fields of amcw_Row after its amcw_Entry *)

amcw_isconstant(row) == row.terms.count = 0

amcw_freerow(row) == [row EXCEPT !.terms = amcw_freetable(row.terms)]

amcw_resetrow(row) ==
    [row EXCEPT !.constant = R(0), !.terms = amcw_resettable(row.terms)]

amcw_initrow ==
    [infeasible_next |-> amcw_null, terms |-> amcw_inittable("amcw_Term"),
     constant |-> R(0)]

amcw_multiply(row, multiplier) ==
    [row EXCEPT
       !.constant = NumMul(@, multiplier),
       !.terms.hash = [i \in DOMAIN @ |->
                         IF @[i].key.id # 0
                         THEN [@[i] EXCEPT !.val = NumMul(@, multiplier)]
                         ELSE @[i]]]

amcw_addvar(row, sym, value) ==
    IF sym.id = 0 THEN row
    ELSE With([r \in {amcw_settable(row.terms, sym)} |->
         With([multiplier \in {NumAdd(r.t.hash[r.e + 1].val, value)} |->
         With([t \in {[r.t EXCEPT !.hash[r.e + 1].val = multiplier]} |->
             [row EXCEPT !.terms = IF amcw_nearzero(multiplier)
                                   THEN amcw_delkey(t, r.e) ELSE t]])])])

\* the loop of amcw_addrow over the terms of other, from the entry after term
RECURSIVE AddRowLoop(_, _, _, _)
AddRowLoop(row, other, multiplier, term) ==
    With([n \in {amcw_nextentry(other.terms, term)} |->
        IF n = -1 THEN row
        ELSE AddRowLoop(amcw_addvar(row, other.terms.hash[n + 1].key,
                                    NumMul(other.terms.hash[n + 1].val, multiplier)),
                        other, multiplier, n)])

amcw_addrow(row, other, multiplier) ==
    AddRowLoop([row EXCEPT !.constant =
                    NumAdd(@, NumMul(other.constant, multiplier))],
               other, multiplier, -1)

amcw_solvefor(row, entry, exit) ==
    With([term \in {amcw_gettable(row.terms, entry)} |->
    With([reciprocal \in {NumDiv(R(1), row.terms.hash[term + 1].val)} |->
    With([r1 \in {amcw_multiply([row EXCEPT !.terms = amcw_delkey(@, term)],
                                NumNeg(reciprocal))} |->
        IF exit.id # 0 THEN amcw_addvar(r1, exit, reciprocal) ELSE r1])])])

amcw_substitute(row, entry, other) ==
    With([term \in {amcw_gettable(row.terms, entry)} |->
        IF term = -1 THEN row
        ELSE amcw_addrow([row EXCEPT !.terms = amcw_delkey(@, term)], other,
                         row.terms.hash[term + 1].val)])

-----------------------------------------------------------------------------
(* The memory m of the program: m.solver is the amcw_Solver, m.var the      *)
(* objects of its varpool, m.cons the objects of its conspool; m.abort      *)
(* names the assertion that failed, "" while none has.                      *)

Abort(m, assertion) == IF m.abort = "" THEN [m EXCEPT !.abort = assertion] ELSE m

amcw_newsymbol(m, type) ==
    With([id \in {m.solver.symbol_count + 1} |->
        IF id > MaxSymbolId
        THEN [m |-> [m EXCEPT !.solver.symbol_count = 1],
              sym |-> [id |-> 1, type |-> type]]
        ELSE [m |-> [m EXCEPT !.solver.symbol_count = id],
              sym |-> [id |-> id, type |-> type]]])

\* the pool object of the variable of sym, 0 where the source's assert fails
amcw_sym2var(m, sym) ==
    With([ve \in {amcw_gettable(m.solver.vars, sym)} |->
        IF ve = -1 THEN 0 ELSE m.solver.vars.hash[ve + 1].val])

\* row is a slot of m.solver.rows
amcw_infeasible(m, row) ==
    With([r \in {m.solver.rows.hash[row + 1]} |->
        IF NumLt(r.val.constant, R(0)) /\ ~amcw_isdummy(r.val.infeasible_next)
        THEN [m EXCEPT
                !.solver.rows.hash[row + 1].val.infeasible_next =
                    [id |-> m.solver.infeasible_rows.id, type |-> AMCW_DUMMY],
                !.solver.infeasible_rows = r.key]
        ELSE m])

amcw_markdirty(m, var) ==
    IF var = 0 THEN Abort(m, "amcw_sym2var: ve != NULL")
    ELSE IF m.var[var].dirty_next.type = AMCW_DUMMY THEN m
    ELSE [m EXCEPT
            !.var[var].dirty_next =
                [id |-> m.solver.dirty_vars.id, type |-> AMCW_DUMMY],
            !.solver.dirty_vars = m.var[var].sym]

RECURSIVE SubstituteRowsLoop(_, _, _, _)
SubstituteRowsLoop(m, var, expr, row) ==
    With([n \in {amcw_nextentry(m.solver.rows, row)} |->
        IF n = -1 THEN m
        ELSE
          With([key \in {m.solver.rows.hash[n + 1].key} |->
          With([m1 \in {[m EXCEPT !.solver.rows.hash[n + 1].val =
                                      amcw_substitute(@, var, expr)]} |->
              SubstituteRowsLoop(
                  IF amcw_isexternal(key)
                  THEN amcw_markdirty(m1, amcw_sym2var(m1, key))
                  ELSE amcw_infeasible(m1, n),
                  var, expr, n)])])])

amcw_substitute_rows(m, var, expr) ==
    With([m1 \in {SubstituteRowsLoop(m, var, expr, -1)} |->
        [m1 EXCEPT !.solver.objective = amcw_substitute(@, var, expr)]])

\* dst is meaningful when ret is AMCW_OK
amcw_takerow(m, sym) ==
    With([row \in {amcw_gettable(m.solver.rows, sym)} |->
        IF row = -1
        THEN [m |-> m, dst |-> amcw_initrow, ret |-> AMCW_FAILED]
        ELSE [m |-> [m EXCEPT !.solver.rows = amcw_delkey(@, row)],
              dst |-> [infeasible_next |-> amcw_null,
                       terms |-> m.solver.rows.hash[row + 1].val.terms,
                       constant |-> m.solver.rows.hash[row + 1].val.constant],
              ret |-> AMCW_OK]])

amcw_putrow(m, sym, src) ==
    With([r \in {amcw_settable(m.solver.rows, sym)} |->
        [m EXCEPT !.solver.rows =
            [r.t EXCEPT !.hash[r.e + 1].val.constant = src.constant,
                        !.hash[r.e + 1].val.terms = src.terms]]])

amcw_mergerow(m, row, var, multiplier) ==
    With([oldrow \in {amcw_gettable(m.solver.rows, var)} |->
        IF oldrow # -1
        THEN amcw_addrow(row, m.solver.rows.hash[oldrow + 1].val, multiplier)
        ELSE amcw_addvar(row, var, multiplier)])

\* the first loop of amcw_optimize without the test of the coefficient's sign
RECURSIVE OptimizeEnter_unsigned(_, _)
OptimizeEnter_unsigned(terms, term) ==
    With([n \in {amcw_nextentry(terms, term)} |->
        IF n = -1 THEN amcw_null
        ELSE IF ~amcw_isdummy(terms.hash[n + 1].key)
        THEN terms.hash[n + 1].key
        ELSE OptimizeEnter_unsigned(terms, n)])

\* the first loop of amcw_optimize: the entering symbol
RECURSIVE OptimizeEnter(_, _)
OptimizeEnter(terms, term) ==
    With([n \in {amcw_nextentry(terms, term)} |->
        IF n = -1 THEN amcw_null
        ELSE IF ~amcw_isdummy(terms.hash[n + 1].key)
                /\ NumLt(terms.hash[n + 1].val, R(0))
        THEN terms.hash[n + 1].key
        ELSE OptimizeEnter(terms, n)])

\* the second loop of amcw_optimize: the key of the leaving row
RECURSIVE OptimizeExit(_, _, _, _, _)
OptimizeExit(rows, enter, row, min_ratio, exit) ==
    With([n \in {amcw_nextentry(rows, row)} |->
        IF n = -1 THEN exit
        ELSE
          With([rw \in {rows.hash[n + 1]} |->
          With([term \in {amcw_gettable(rw.val.terms, enter)} |->
              IF term = -1 \/ ~amcw_ispivotable(rw.key)
                 \/ NumLt(R(0), rw.val.terms.hash[term + 1].val)
              THEN OptimizeExit(rows, enter, n, min_ratio, exit)
              ELSE
                With([r \in {NumDiv(NumNeg(rw.val.constant),
                                    rw.val.terms.hash[term + 1].val)} |->
                    IF NumLt(r, min_ratio)
                       \/ (amcw_approx(r, min_ratio) /\ rw.key.id < exit.id)
                    THEN OptimizeExit(rows, enter, n, r, rw.key)
                    ELSE OptimizeExit(rows, enter, n, min_ratio, exit)])])])])

\* own: objective is &solver->objective (the argument objective is then not
\* read); n counts the pivots
RECURSIVE OptimizeLoop(_, _, _, _)
OptimizeLoop(m, objective, own, n) ==
    IF m.abort # "" THEN [m |-> m, objective |-> objective, ret |-> AMCW_FAILED]
    ELSE IF m.solver.infeasible_rows.id # 0
    THEN [m |-> Abort(m, "amcw_optimize: infeasible_rows.id == 0"),
          objective |-> objective, ret |-> AMCW_FAILED]
    ELSE
      With([enter \in {OptimizeEnter(IF own THEN m.solver.objective.terms
                                     ELSE objective.terms, -1)} |->
          IF enter.id = 0
          THEN [m |-> m, objective |-> objective, ret |-> AMCW_OK]
          ELSE
            With([exit \in {OptimizeExit(m.solver.rows, enter, -1, AMCW_NUM_MAX,
                                         amcw_null)} |->
                IF exit.id = 0
                THEN [m |-> Abort(m, "amcw_optimize: exit.id != 0"),
                      objective |-> objective, ret |-> AMCW_FAILED]
                ELSE IF n >= MaxPivots
                THEN [m |-> Abort(m, "pivot limit"),
                      objective |-> objective, ret |-> AMCW_FAILED]
                ELSE
                  With([tk \in {amcw_takerow(m, exit)} |->
                  With([tmp \in {amcw_solvefor(tk.dst, enter, exit)} |->
                  With([m1 \in {amcw_substitute_rows(tk.m, enter, tmp)} |->
                      OptimizeLoop(amcw_putrow(m1, enter, tmp),
                                   IF own THEN objective
                                   ELSE amcw_substitute(objective, enter, tmp),
                                   own, n + 1)])])])])])

amcw_optimize(m, objective, own) == OptimizeLoop(m, objective, own, 0)

amcw_initsymbol(m, sym, type) ==
    IF sym.id = 0 THEN amcw_newsymbol(m, type) ELSE [m |-> m, sym |-> sym]

\* the loop of amcw_makerow over the terms of the expression of cons
RECURSIVE MakeRowLoop(_, _, _, _)
MakeRowLoop(m, row, cons, term) ==
    With([terms \in {m.cons[cons].expression.terms} |->
    With([n \in {amcw_nextentry(terms, term)} |->
        IF n = -1 THEN [m |-> m, row |-> row]
        ELSE With([m1 \in {amcw_markdirty(m, amcw_sym2var(m, terms.hash[n + 1].key))} |->
                 MakeRowLoop(m1,
                             amcw_mergerow(m1, row, terms.hash[n + 1].key,
                                           terms.hash[n + 1].val),
                             cons, n)])])])

amcw_makerow(m, cons) ==
    With([l \in {MakeRowLoop(m, [amcw_initrow EXCEPT
                                    !.constant = m.cons[cons].expression.constant],
                             cons, -1)} |->
    With([c \in {l.m.cons[cons]} |->
    With([r \in {
               IF c.relation # AMCW_EQUAL
               THEN
                 With([mk \in {amcw_initsymbol(l.m, c.marker, AMCW_SLACK)} |->
                 With([row1 \in {amcw_addvar(l.row, mk.sym, R(-1))} |->
                 With([m1 \in {[mk.m EXCEPT !.cons[cons].marker = mk.sym]} |->
                     IF NumLt(c.strength, R(AMCW_REQUIRED))
                     THEN
                       With([ot \in {amcw_initsymbol(m1, c.other, AMCW_ERROR)} |->
                           [m |-> [ot.m EXCEPT
                                     !.cons[cons].other = ot.sym,
                                     !.solver.objective =
                                         amcw_addvar(@, ot.sym, c.strength)],
                            row |-> amcw_addvar(row1, ot.sym, R(1))]])
                     ELSE [m |-> m1, row |-> row1]])])])
               ELSE IF NumLe(R(AMCW_REQUIRED), c.strength)
               THEN
                 With([mk \in {amcw_initsymbol(l.m, c.marker, AMCW_DUMMY)} |->
                     [m |-> [mk.m EXCEPT !.cons[cons].marker = mk.sym],
                      row |-> amcw_addvar(l.row, mk.sym, R(1))]])
               ELSE
                 With([mk \in {amcw_initsymbol(l.m, c.marker, AMCW_ERROR)} |->
                 With([ot \in {amcw_initsymbol(mk.m, c.other, AMCW_ERROR)} |->
                     [m |-> [ot.m EXCEPT
                               !.cons[cons].marker = mk.sym,
                               !.cons[cons].other = ot.sym,
                               !.solver.objective =
                                   amcw_addvar(amcw_addvar(@, mk.sym, c.strength),
                                               ot.sym, c.strength)],
                      row |-> amcw_addvar(amcw_addvar(l.row, mk.sym, R(-1)),
                                          ot.sym, R(1))]])])} |->
        [m |-> r.m,
         row |-> IF NumLt(r.row.constant, R(0))
                 THEN amcw_multiply(r.row, R(-1)) ELSE r.row]])])])

amcw_remove_errors(m, cons) ==
    With([c \in {m.cons[cons]} |->
    With([o1 \in {IF amcw_iserror(c.marker)
                  THEN amcw_mergerow(m, m.solver.objective, c.marker,
                                     NumNeg(c.strength))
                  ELSE m.solver.objective} |->
    With([o2 \in {IF amcw_iserror(c.other)
                  THEN amcw_mergerow(m, o1, c.other, NumNeg(c.strength))
                  ELSE o1} |->
        [m EXCEPT
           !.solver.objective = IF amcw_isconstant(o2)
                                THEN [o2 EXCEPT !.constant = R(0)] ELSE o2,
           !.cons[cons].marker = amcw_null,
           !.cons[cons].other = amcw_null]])])])

\* the loop of amcw_get_leaving_row; sel holds first, second, third, r1, r2
RECURSIVE LeavingRowLoop(_, _, _, _)
LeavingRowLoop(rows, marker, row, sel) ==
    With([n \in {amcw_nextentry(rows, row)} |->
        IF n = -1 THEN sel
        ELSE
          With([rw \in {rows.hash[n + 1]} |->
          With([term \in {amcw_gettable(rw.val.terms, marker)} |->
              IF term = -1 THEN LeavingRowLoop(rows, marker, n, sel)
              ELSE IF amcw_isexternal(rw.key)
              THEN LeavingRowLoop(rows, marker, n, [sel EXCEPT !.third = rw.key])
              ELSE IF NumLt(rw.val.terms.hash[term + 1].val, R(0))
              THEN
                With([r \in {NumDiv(NumNeg(rw.val.constant),
                                    rw.val.terms.hash[term + 1].val)} |->
                    LeavingRowLoop(rows, marker, n,
                        IF NumLt(r, sel.r1)
                        THEN [sel EXCEPT !.r1 = r, !.first = rw.key] ELSE sel)])
              ELSE
                With([r \in {NumDiv(rw.val.constant,
                                    rw.val.terms.hash[term + 1].val)} |->
                    LeavingRowLoop(rows, marker, n,
                        IF NumLt(r, sel.r2)
                        THEN [sel EXCEPT !.r2 = r, !.second = rw.key] ELSE sel)])])])])

\* amcw_get_leaving_row preferring a row with an external key
amcw_get_leaving_row_external(m, marker) ==
    With([sel \in {LeavingRowLoop(m.solver.rows, marker, -1,
                       [first |-> amcw_null, second |-> amcw_null,
                        third |-> amcw_null, r1 |-> AMCW_NUM_MAX,
                        r2 |-> AMCW_NUM_MAX])} |->
        IF sel.third.id # 0 THEN sel.third
        ELSE IF sel.first.id # 0 THEN sel.first
        ELSE sel.second])

amcw_get_leaving_row(m, marker) ==
    With([sel \in {LeavingRowLoop(m.solver.rows, marker, -1,
                       [first |-> amcw_null, second |-> amcw_null,
                        third |-> amcw_null, r1 |-> AMCW_NUM_MAX,
                        r2 |-> AMCW_NUM_MAX])} |->
        IF sel.first.id # 0 THEN sel.first
        ELSE IF sel.second.id # 0 THEN sel.second
        ELSE sel.third])

\* amcw_updatevars publishing the first variable of the dirty list only
amcw_updatevars_once(m) ==
    IF m.solver.dirty_vars.id = 0 THEN m
    ELSE
      With([var \in {amcw_sym2var(m, m.solver.dirty_vars)} |->
          IF var = 0 THEN Abort(m, "amcw_sym2var: ve != NULL")
          ELSE
            With([row \in {amcw_gettable(m.solver.rows, m.var[var].sym)} |->
                [m EXCEPT
                   !.solver.dirty_vars = m.var[var].dirty_next,
                   !.var[var].dirty_next = amcw_null,
                   !.var[var].value =
                       IF row # -1
                       THEN m.solver.rows.hash[row + 1].val.constant
                       ELSE R(0)]])])

RECURSIVE amcw_updatevars(_)
amcw_updatevars(m) ==
    IF m.solver.dirty_vars.id = 0 THEN m
    ELSE
      With([var \in {amcw_sym2var(m, m.solver.dirty_vars)} |->
          IF var = 0 THEN Abort(m, "amcw_sym2var: ve != NULL")
          ELSE
            With([row \in {amcw_gettable(m.solver.rows, m.var[var].sym)} |->
                amcw_updatevars(
                  [m EXCEPT
                     !.solver.dirty_vars = m.var[var].dirty_next,
                     !.var[var].dirty_next = amcw_null,
                     !.var[var].value =
                         IF row # -1
                         THEN m.solver.rows.hash[row + 1].val.constant
                         ELSE R(0)])])])

\* cons is a pool object, 0 for NULL
amcw_remove(m, cons) ==
    IF m.abort # "" \/ cons = 0 THEN m
    ELSE IF m.cons[cons].marker.id = 0 THEN m
    ELSE
      With([marker \in {m.cons[cons].marker} |->
      With([m1 \in {amcw_remove_errors(m, cons)} |->
      With([tk \in {amcw_takerow(m1, marker)} |->
      With([m2 \in {
                 IF tk.ret # AMCW_OK
                 THEN
                   With([exit \in {amcw_get_leaving_row(m1, marker)} |->
                       IF exit.id = 0
                       THEN Abort(m1, "amcw_remove: exit.id != 0")
                       ELSE
                         With([tk2 \in {amcw_takerow(m1, exit)} |->
                             amcw_substitute_rows(tk2.m, marker,
                                 amcw_solvefor(tk2.dst, marker, exit))])])
                 ELSE tk.m} |->
      With([m3 \in {amcw_optimize(m2, m2.solver.objective, TRUE).m} |->
          IF m3.abort # "" THEN m3
          ELSE IF m3.solver.auto_update # 0 THEN amcw_updatevars(m3) ELSE m3])])])])])

\* the first term of terms after the entry term whose key satisfies the
\* test: type in types; the null symbol when there is none
RECURSIVE FirstTerm(_, _, _)
FirstTerm(terms, types, term) ==
    With([n \in {amcw_nextentry(terms, term)} |->
        IF n = -1 THEN amcw_null
        ELSE IF terms.hash[n + 1].key.type \in types THEN terms.hash[n + 1].key
        ELSE FirstTerm(terms, types, n)])

\* the loop of amcw_add_with_artificial that erases the symbol a from the rows
RECURSIVE EraseLoop(_, _, _)
EraseLoop(rows, a, row) ==
    With([n \in {amcw_nextentry(rows, row)} |->
        IF n = -1 THEN rows
        ELSE
          With([term \in {amcw_gettable(rows.hash[n + 1].val.terms, a)} |->
              EraseLoop(IF term # -1
                        THEN [rows EXCEPT !.hash[n + 1].val.terms =
                                              amcw_delkey(@, term)]
                        ELSE rows,
                        a, n)])])

amcw_add_with_artificial(m, row, cons) ==
    With([ns \in {amcw_newsymbol(m, AMCW_SLACK)} |->
    With([a \in {ns.sym} |->
    With([m0 \in {[ns.m EXCEPT !.solver.symbol_count = @ - 1]} |->
    With([m1 \in {amcw_putrow(m0, a, row)} |->
    With([opt \in {amcw_optimize(m1, amcw_addrow(amcw_initrow, row, R(1)), FALSE)} |->
    With([ret \in {IF amcw_nearzero(opt.objective.constant)
                   THEN AMCW_OK ELSE AMCW_UNBOUND} |->
    With([tk \in {amcw_takerow(opt.m, a)} |->
    With([entry \in {FirstTerm(tk.dst.terms, {AMCW_SLACK, AMCW_ERROR}, -1)} |->
        IF opt.m.abort # "" THEN [m |-> opt.m, ret |-> AMCW_FAILED]
        ELSE IF tk.ret = AMCW_OK /\ amcw_isconstant(tk.dst)
        THEN [m |-> tk.m, ret |-> ret]
        ELSE IF tk.ret = AMCW_OK /\ entry.id = 0
        THEN [m |-> tk.m, ret |-> AMCW_UNBOUND]
        ELSE
          With([m2 \in {IF tk.ret = AMCW_OK
                        THEN With([tmp \in {amcw_solvefor(tk.dst, entry, a)} |->
                                 amcw_putrow(amcw_substitute_rows(tk.m, entry, tmp),
                                             entry, tmp)])
                        ELSE tk.m} |->
          With([m3 \in {[m2 EXCEPT !.solver.rows = EraseLoop(@, a, -1)]} |->
          With([term \in {amcw_gettable(m3.solver.objective.terms, a)} |->
          With([m4 \in {IF term # -1
                        THEN [m3 EXCEPT !.solver.objective.terms =
                                            amcw_delkey(@, term)]
                        ELSE m3} |->
              [m |-> IF ret # AMCW_OK THEN amcw_remove(m4, cons) ELSE m4,
               ret |-> ret]])])])])])])])])])])])])

\* amcw_try_addrow without the test of the constant of a row of dummies
amcw_try_addrow_accepting(m, row, cons) ==
    With([c \in {m.cons[cons]} |->
    With([s1 \in {FirstTerm(row.terms, {AMCW_EXTERNAL}, -1)} |->
    With([s2 \in {IF s1.id = 0 /\ amcw_ispivotable(c.marker)
                     /\ NumLt(row.terms.hash[amcw_gettable(row.terms, c.marker) + 1].val,
                              R(0))
                  THEN c.marker ELSE s1} |->
    With([s3 \in {IF s2.id = 0 /\ amcw_ispivotable(c.other)
                     /\ NumLt(row.terms.hash[amcw_gettable(row.terms, c.other) + 1].val,
                              R(0))
                  THEN c.other ELSE s2} |->
    With([alldummy \in {FirstTerm(row.terms,
                            {AMCW_EXTERNAL, AMCW_SLACK, AMCW_ERROR}, -1).id = 0} |->
        IF FALSE
        THEN [m |-> m, ret |-> AMCW_UNSATISFIED]
        ELSE
          With([subject \in {IF s3.id = 0 /\ alldummy THEN c.marker ELSE s3} |->
              IF subject.id = 0
              THEN amcw_add_with_artificial(m, row, cons)
              ELSE IF amcw_gettable(row.terms, subject) = -1
              THEN [m |-> Abort(m, "amcw_solvefor: term is NULL"),
                    ret |-> AMCW_FAILED]
              ELSE With([r \in {amcw_solvefor(row, subject, amcw_null)} |->
                       [m |-> amcw_putrow(amcw_substitute_rows(m, subject, r),
                                          subject, r),
                        ret |-> AMCW_OK]])])])])])])])

\* amcw_solvefor reads term->multiplier of the subject: where the row has no
\* such term the read is through a null pointer and the program ends
amcw_try_addrow(m, row, cons) ==
    With([c \in {m.cons[cons]} |->
    With([s1 \in {FirstTerm(row.terms, {AMCW_EXTERNAL}, -1)} |->
    With([s2 \in {IF s1.id = 0 /\ amcw_ispivotable(c.marker)
                     /\ NumLt(row.terms.hash[amcw_gettable(row.terms, c.marker) + 1].val,
                              R(0))
                  THEN c.marker ELSE s1} |->
    With([s3 \in {IF s2.id = 0 /\ amcw_ispivotable(c.other)
                     /\ NumLt(row.terms.hash[amcw_gettable(row.terms, c.other) + 1].val,
                              R(0))
                  THEN c.other ELSE s2} |->
    With([alldummy \in {FirstTerm(row.terms,
                            {AMCW_EXTERNAL, AMCW_SLACK, AMCW_ERROR}, -1).id = 0} |->
        IF s3.id = 0 /\ alldummy /\ ~amcw_nearzero(row.constant)
        THEN [m |-> m, ret |-> AMCW_UNSATISFIED]
        ELSE
          With([subject \in {IF s3.id = 0 /\ alldummy THEN c.marker ELSE s3} |->
              IF subject.id = 0
              THEN amcw_add_with_artificial(m, row, cons)
              ELSE IF amcw_gettable(row.terms, subject) = -1
              THEN [m |-> Abort(m, "amcw_solvefor: term is NULL"),
                    ret |-> AMCW_FAILED]
              ELSE With([r \in {amcw_solvefor(row, subject, amcw_null)} |->
                       [m |-> amcw_putrow(amcw_substitute_rows(m, subject, r),
                                          subject, r),
                        ret |-> AMCW_OK]])])])])])])])

\* the loop of amcw_delta_edit_constant over the rows
RECURSIVE DeltaLoop(_, _, _, _)
DeltaLoop(m, delta, marker, row) ==
    With([n \in {amcw_nextentry(m.solver.rows, row)} |->
        IF n = -1 THEN m
        ELSE
          With([rw \in {m.solver.rows.hash[n + 1]} |->
          With([term \in {amcw_gettable(rw.val.terms, marker)} |->
              IF term = -1 THEN DeltaLoop(m, delta, marker, n)
              ELSE
                With([m1 \in {[m EXCEPT !.solver.rows.hash[n + 1].val.constant =
                                   NumAdd(@, NumMul(rw.val.terms.hash[term + 1].val,
                                                    delta))]} |->
                    DeltaLoop(IF amcw_isexternal(rw.key)
                              THEN amcw_markdirty(m1, amcw_sym2var(m1, rw.key))
                              ELSE amcw_infeasible(m1, n),
                              delta, marker, n)])])])])

amcw_delta_edit_constant(m, delta, cons) ==
    With([c \in {m.cons[cons]} |->
    With([r1 \in {amcw_gettable(m.solver.rows, c.marker)} |->
    With([r2 \in {amcw_gettable(m.solver.rows, c.other)} |->
        IF r1 # -1
        THEN amcw_infeasible(
                 [m EXCEPT !.solver.rows.hash[r1 + 1].val.constant =
                               NumSub(@, delta)], r1)
        ELSE IF r2 # -1
        THEN amcw_infeasible(
                 [m EXCEPT !.solver.rows.hash[r2 + 1].val.constant =
                               NumAdd(@, delta)], r2)
        ELSE DeltaLoop(m, delta, c.marker, -1)])])])

\* the loop of amcw_dual_optimize over the terms of the leaving row; sel
\* holds min_ratio and enter
RECURSIVE DualEnter(_, _, _, _)
DualEnter(terms, objective, term, sel) ==
    With([n \in {amcw_nextentry(terms, term)} |->
        IF n = -1 THEN sel.enter
        ELSE
          With([cur \in {terms.hash[n + 1].key} |->
          With([multiplier \in {terms.hash[n + 1].val} |->
              IF amcw_isdummy(cur) \/ NumLe(multiplier, R(0))
              THEN DualEnter(terms, objective, n, sel)
              ELSE
                With([objterm \in {amcw_gettable(objective.terms, cur)} |->
                With([r \in {IF objterm # -1
                             THEN NumDiv(objective.terms.hash[objterm + 1].val,
                                         multiplier)
                             ELSE R(0)} |->
                    DualEnter(terms, objective, n,
                              IF NumLt(r, sel.min_ratio)
                              THEN [min_ratio |-> r, enter |-> cur] ELSE sel)])])])])])

RECURSIVE DualLoop(_, _)
DualLoop(m, n) ==
    IF m.abort # "" \/ m.solver.infeasible_rows.id = 0 THEN m
    ELSE
      With([row \in {amcw_gettable(m.solver.rows, m.solver.infeasible_rows)} |->
          IF row = -1 THEN Abort(m, "amcw_dual_optimize: row != NULL")
          ELSE
            With([rw \in {m.solver.rows.hash[row + 1]} |->
            With([leave \in {rw.key} |->
            With([m1 \in {[m EXCEPT
                             !.solver.infeasible_rows = rw.val.infeasible_next,
                             !.solver.rows.hash[row + 1].val.infeasible_next =
                                 amcw_null]} |->
                IF amcw_nearzero(rw.val.constant)
                   \/ NumLe(R(0), rw.val.constant)
                THEN DualLoop(m1, n)
                ELSE
                  With([enter \in {DualEnter(rw.val.terms, m1.solver.objective, -1,
                                       [min_ratio |-> AMCW_NUM_MAX,
                                        enter |-> amcw_null])} |->
                      IF enter.id = 0
                      THEN Abort(m1, "amcw_dual_optimize: enter.id != 0")
                      ELSE IF n >= MaxPivots THEN Abort(m1, "pivot limit")
                      ELSE
                        With([tk \in {amcw_takerow(m1, leave)} |->
                        With([tmp \in {amcw_solvefor(tk.dst, enter, leave)} |->
                            DualLoop(
                                amcw_putrow(
                                    amcw_substitute_rows(tk.m, enter, tmp),
                                    enter, tmp),
                                n + 1)])])])])])])])

amcw_dual_optimize(m) == DualLoop(m, 0)

\* cons is a pool object, 0 for NULL
amcw_add(m, cons) ==
    IF m.abort # "" \/ cons = 0 THEN [m |-> m, ret |-> AMCW_FAILED]
    ELSE IF m.cons[cons].marker.id # 0 THEN [m |-> m, ret |-> AMCW_FAILED]
    ELSE
      With([oldsym \in {m.solver.symbol_count} |->
      With([mk \in {amcw_makerow(m, cons)} |->
      With([tr \in {IF mk.m.abort # "" THEN [m |-> mk.m, ret |-> AMCW_FAILED]
                    ELSE amcw_try_addrow(mk.m, mk.row, cons)} |->
      With([m1 \in {IF tr.m.abort # "" THEN tr.m
                    ELSE IF tr.ret # AMCW_OK
                    THEN [amcw_remove_errors(tr.m, cons) EXCEPT
                            !.solver.symbol_count = oldsym]
                    ELSE
                      With([m2 \in {amcw_optimize(tr.m, tr.m.solver.objective, TRUE).m} |->
                          IF m2.abort = "" /\ m2.solver.auto_update # 0
                          THEN amcw_updatevars(m2) ELSE m2])} |->
          [m |-> IF m1.abort = "" /\ m1.solver.infeasible_rows.id # 0
                 THEN Abort(m1, "amcw_add: infeasible_rows.id == 0") ELSE m1,
           ret |-> tr.ret]])])])])

amcw_setstrength(m, cons, strength0) ==
    IF cons = 0 THEN [m |-> m, ret |-> AMCW_FAILED]
    ELSE
      With([strength \in {IF amcw_nearzero(strength0) THEN R(AMCW_REQUIRED)
                          ELSE strength0} |->
      With([c \in {m.cons[cons]} |->
          IF c.strength = strength THEN [m |-> m, ret |-> AMCW_OK]
          ELSE IF NumLe(R(AMCW_REQUIRED), c.strength)
                  \/ NumLe(R(AMCW_REQUIRED), strength)
          THEN amcw_add([amcw_remove(m, cons) EXCEPT
                            !.cons[cons].strength = strength], cons)
          ELSE IF c.marker.id # 0
          THEN
            With([diff \in {NumSub(strength, c.strength)} |->
            With([o1 \in {amcw_mergerow(m, m.solver.objective, c.marker, diff)} |->
            With([o2 \in {amcw_mergerow(m, o1, c.other, diff)} |->
            With([m1 \in {[m EXCEPT !.solver.objective = o2]} |->
            With([m2 \in {amcw_optimize(m1, m1.solver.objective, TRUE).m} |->
            With([m3 \in {IF m2.abort = "" /\ m2.solver.auto_update # 0
                          THEN amcw_updatevars(m2) ELSE m2} |->
                [m |-> [m3 EXCEPT !.cons[cons].strength = strength],
                 ret |-> AMCW_OK]])])])])])])
          ELSE [m |-> [m EXCEPT !.cons[cons].strength = strength],
                ret |-> AMCW_OK]])])

-----------------------------------------------------------------------------
(* variables & constraints *)

\* a memory pool is the list of its free objects, the next to be handed out
\* first: a fresh page hands out its objects in address order
amcw_alloc(pool) == [pool |-> Tail(pool), obj |-> Head(pool)]
amcw_free(pool, obj) == <<obj>> \o pool

ZeroVar ==
    [sym |-> amcw_null, dirty_next |-> amcw_null, refcount |-> 0,
     constraint |-> 0, edit_value |-> R(0), value |-> R(0)]

ZeroConstraint ==
    [key |-> amcw_null, expression |-> ZeroPayload("amcw_Row"),
     marker |-> amcw_null, other |-> amcw_null, relation |-> 0,
     strength |-> R(0)]

amcw_variableid(m, var) == IF var # 0 THEN m.var[var].sym.id ELSE -1
amcw_value(m, var) == IF var # 0 THEN m.var[var].value ELSE R(0)
amcw_usevariable(m, var) ==
    IF var # 0 THEN [m EXCEPT !.var[var].refcount = @ + 1] ELSE m

amcw_newvariable(m) ==
    With([a \in {amcw_alloc(m.solver.varpool)} |->
    With([ns \in {amcw_newsymbol([m EXCEPT !.solver.varpool = a.pool], AMCW_EXTERNAL)} |->
    With([ve \in {amcw_settable(ns.m.solver.vars, ns.sym)} |->
        [m |-> [ns.m EXCEPT
                  !.solver.vars = [ve.t EXCEPT !.hash[ve.e + 1].val = a.obj],
                  !.var[a.obj] = [ZeroVar EXCEPT !.sym = ns.sym,
                                                 !.refcount = 1]],
         var |-> a.obj]])])])

amcw_delvariable(m, var) ==
    IF m.abort # "" \/ var = 0 THEN m
    ELSE
      With([m1 \in {[m EXCEPT !.var[var].refcount = @ - 1]} |->
          IF m1.var[var].refcount <= 0
          THEN
            With([e \in {amcw_gettable(m1.solver.vars, m1.var[var].sym)} |->
                IF e = -1 THEN Abort(m1, "amcw_delvariable: e != NULL")
                ELSE
                  With([m2 \in {amcw_remove(
                                    [m1 EXCEPT !.solver.vars = amcw_delkey(@, e)],
                                    m1.var[var].constraint)} |->
                      [m2 EXCEPT !.solver.varpool = amcw_free(@, var)]])])
          ELSE m1])

amcw_newconstraint(m, strength) ==
    With([a \in {amcw_alloc(m.solver.conspool)} |->
    With([key \in {[id |-> m.solver.constraint_count + 1, type |-> AMCW_EXTERNAL]} |->
    With([ce \in {amcw_settable(m.solver.constraints, key)} |->
        [m |-> [m EXCEPT
                  !.solver.conspool = a.pool,
                  !.solver.constraint_count = @ + 1,
                  !.solver.constraints =
                      [ce.t EXCEPT !.hash[ce.e + 1].val = a.obj],
                  !.cons[a.obj] =
                      [ZeroConstraint EXCEPT
                         !.key = key,
                         !.expression = amcw_initrow,
                         !.strength = IF amcw_nearzero(strength)
                                      THEN R(AMCW_REQUIRED) ELSE strength]],
         cons |-> a.obj]])])])

\* the loops of amcw_delconstraint and amcw_resetconstraint over the terms
RECURSIVE DelTermsLoop(_, _, _)
DelTermsLoop(m, cons, term) ==
    With([terms \in {m.cons[cons].expression.terms} |->
    With([n \in {amcw_nextentry(terms, term)} |->
        IF n = -1 \/ m.abort # "" THEN m
        ELSE
          With([var \in {amcw_sym2var(m, terms.hash[n + 1].key)} |->
              IF var = 0 THEN Abort(m, "amcw_sym2var: ve != NULL")
              ELSE DelTermsLoop(amcw_delvariable(m, var), cons, n)])])])

amcw_delconstraint(m, cons) ==
    IF m.abort # "" \/ cons = 0 THEN m
    ELSE
      With([m1 \in {amcw_remove(m, cons)} |->
      With([ce \in {amcw_gettable(m1.solver.constraints, m1.cons[cons].key)} |->
          IF m1.abort # "" THEN m1
          ELSE IF ce = -1 THEN Abort(m1, "amcw_delconstraint: ce != NULL")
          ELSE
            With([m2 \in {DelTermsLoop(
                              [m1 EXCEPT !.solver.constraints = amcw_delkey(@, ce)],
                              cons, -1)} |->
                IF m2.abort # "" THEN m2
                ELSE [m2 EXCEPT
                        !.cons[cons].expression = amcw_freerow(@),
                        !.solver.conspool = amcw_free(@, cons)]])])])

\* the loop of amcw_mergeconstraint over the terms of other
RECURSIVE MergeLoop(_, _, _, _, _)
MergeLoop(m, cons, other, multiplier, term) ==
    With([terms \in {m.cons[other].expression.terms} |->
    With([n \in {amcw_nextentry(terms, term)} |->
        IF n = -1 \/ m.abort # "" THEN m
        ELSE
          With([var \in {amcw_sym2var(m, terms.hash[n + 1].key)} |->
              IF var = 0 THEN Abort(m, "amcw_sym2var: ve != NULL")
              ELSE MergeLoop(
                     [amcw_usevariable(m, var) EXCEPT
                        !.cons[cons].expression =
                            amcw_addvar(@, terms.hash[n + 1].key,
                                NumMul(terms.hash[n + 1].val, multiplier))],
                     cons, other, multiplier, n)])])])

amcw_mergeconstraint(m, cons, other, multiplier0) ==
    IF cons = 0 \/ other = 0 THEN [m |-> m, ret |-> AMCW_FAILED]
    ELSE IF m.cons[cons].marker.id # 0 THEN [m |-> m, ret |-> AMCW_FAILED]
    ELSE
      With([multiplier \in {IF m.cons[cons].relation = AMCW_GREATEQUAL
                            THEN NumNeg(multiplier0) ELSE multiplier0} |->
          [m |-> MergeLoop(
                   [m EXCEPT !.cons[cons].expression.constant =
                        NumAdd(@, NumMul(m.cons[other].expression.constant,
                                         multiplier))],
                   cons, other, multiplier, -1),
           ret |-> AMCW_OK]])

amcw_cloneconstraint(m, other, strength) ==
    IF other = 0 THEN [m |-> m, cons |-> 0]
    ELSE
      With([nc \in {amcw_newconstraint(m, IF amcw_nearzero(strength)
                                          THEN m.cons[other].strength ELSE strength)} |->
      With([mg \in {amcw_mergeconstraint(nc.m, nc.cons, other, R(1))} |->
          [m |-> [mg.m EXCEPT !.cons[nc.cons].relation =
                                  m.cons[other].relation],
           cons |-> nc.cons]])])

amcw_resetconstraint(m, cons) ==
    IF m.abort # "" \/ cons = 0 THEN m
    ELSE
      With([m1 \in {amcw_remove(m, cons)} |->
      With([m2 \in {DelTermsLoop([m1 EXCEPT !.cons[cons].relation = 0], cons, -1)} |->
          IF m2.abort # "" THEN m2
          ELSE [m2 EXCEPT !.cons[cons].expression = amcw_resetrow(@)]])])

\* amcw_addterm without the test of cons->marker
amcw_addterm_unguarded(m, cons, var, multiplier) ==
    IF cons = 0 \/ var = 0 THEN [m |-> m, ret |-> AMCW_FAILED]
    ELSE [m |-> amcw_usevariable(
                  [m EXCEPT !.cons[cons].expression =
                       amcw_addvar(@, m.var[var].sym,
                           IF m.cons[cons].relation = AMCW_GREATEQUAL
                           THEN NumNeg(multiplier) ELSE multiplier)],
                  var),
          ret |-> AMCW_OK]

amcw_addterm(m, cons, var, multiplier) ==
    IF cons = 0 \/ var = 0 THEN [m |-> m, ret |-> AMCW_FAILED]
    ELSE IF m.cons[cons].marker.id # 0 THEN [m |-> m, ret |-> AMCW_FAILED]
    ELSE [m |-> amcw_usevariable(
                  [m EXCEPT !.cons[cons].expression =
                       amcw_addvar(@, m.var[var].sym,
                           IF m.cons[cons].relation = AMCW_GREATEQUAL
                           THEN NumNeg(multiplier) ELSE multiplier)],
                  var),
          ret |-> AMCW_OK]

amcw_addconstant(m, cons, constant) ==
    IF cons = 0 THEN [m |-> m, ret |-> AMCW_FAILED]
    ELSE IF m.cons[cons].marker.id # 0 THEN [m |-> m, ret |-> AMCW_FAILED]
    ELSE [m |-> [m EXCEPT !.cons[cons].expression.constant =
                    NumAdd(@, IF m.cons[cons].relation = AMCW_GREATEQUAL
                              THEN NumNeg(constant) ELSE constant)],
          ret |-> AMCW_OK]

amcw_setrelation(m, cons, relation) ==
    IF cons = 0 THEN [m |-> m, ret |-> AMCW_FAILED]
    ELSE IF m.cons[cons].marker.id # 0 \/ m.cons[cons].relation # 0
    THEN [m |-> m, ret |-> AMCW_FAILED]
    ELSE [m |-> [m EXCEPT
                   !.cons[cons].expression =
                       IF relation # AMCW_GREATEQUAL
                       THEN amcw_multiply(@, R(-1)) ELSE @,
                   !.cons[cons].relation = relation],
          ret |-> AMCW_OK]

-----------------------------------------------------------------------------
(* Cassowary algorithm: the public operations *)

amcw_hasedit(m, var) == var # 0 /\ m.var[var].constraint # 0
amcw_hasconstraint(m, cons) == cons # 0 /\ m.cons[cons].marker.id # 0
amcw_autoupdate(m, auto_update) == [m EXCEPT !.solver.auto_update = auto_update]

\* objects is the number of objects of each pool of the model
amcw_newsolver(objects) ==
    [solver |->
        [objective |-> amcw_initrow,
         vars |-> amcw_inittable("amcw_VarEntry"),
         constraints |-> amcw_inittable("amcw_ConsEntry"),
         rows |-> amcw_inittable("amcw_Row"),
         varpool |-> [i \in 1..objects |-> i],
         conspool |-> [i \in 1..objects |-> i],
         symbol_count |-> 0, constraint_count |-> 0, auto_update |-> 0,
         infeasible_rows |-> amcw_null, dirty_vars |-> amcw_null],
     var |-> [i \in 1..objects |-> ZeroVar],
     cons |-> [i \in 1..objects |-> ZeroConstraint],
     abort |-> ""]

\* the first loop of amcw_resetsolver, over the entries of vars
RECURSIVE ResetEditsLoop(_, _)
ResetEditsLoop(m, entry) ==
    With([n \in {amcw_nextentry(m.solver.vars, entry)} |->
        IF n = -1 \/ m.abort # "" THEN m
        ELSE With([var \in {m.solver.vars.hash[n + 1].val} |->
                 ResetEditsLoop(
                     [amcw_remove(m, m.var[var].constraint) EXCEPT
                        !.var[var].constraint = 0],
                     n)])])

\* the second loop of amcw_resetsolver clearing no marker
ResetMarkersLoop_keeping(m, entry) == m

\* the second loop of amcw_resetsolver, over the entries of constraints
RECURSIVE ResetMarkersLoop(_, _)
ResetMarkersLoop(m, entry) ==
    With([n \in {amcw_nextentry(m.solver.constraints, entry)} |->
        IF n = -1 THEN m
        ELSE With([cons \in {m.solver.constraints.hash[n + 1].val} |->
                 ResetMarkersLoop(
                     IF m.cons[cons].marker.id # 0
                     THEN [m EXCEPT !.cons[cons].marker = amcw_null,
                                    !.cons[cons].other = amcw_null]
                     ELSE m,
                     n)])])

\* the third loop of amcw_resetsolver, over the entries of rows
RECURSIVE ResetRowsLoop(_, _)
ResetRowsLoop(rows, entry) ==
    With([n \in {amcw_nextentry(rows, entry)} |->
        IF n = -1 THEN rows
        ELSE ResetRowsLoop(
                 [amcw_delkey(rows, n) EXCEPT
                    !.hash[n + 1].val = amcw_freerow(@)],
                 n)])

amcw_resetsolver(m, clear_constraints) ==
    With([m0 \in {IF m.solver.auto_update = 0 THEN amcw_updatevars(m) ELSE m} |->
    With([m1 \in {ResetEditsLoop(m0, -1)} |->
        IF m1.abort # "" THEN m1
        ELSE IF ~amcw_nearzero(m1.solver.objective.constant)
        THEN Abort(m1, "amcw_resetsolver: amcw_nearzero(objective.constant)")
        ELSE IF m1.solver.infeasible_rows.id # 0
        THEN Abort(m1, "amcw_resetsolver: infeasible_rows.id == 0")
        ELSE IF m1.solver.dirty_vars.id # 0
        THEN Abort(m1, "amcw_resetsolver: dirty_vars.id == 0")
        ELSE IF clear_constraints = 0 THEN m1
        ELSE
          With([m2 \in {ResetMarkersLoop(
                            [m1 EXCEPT !.solver.objective = amcw_resetrow(@)], -1)} |->
              [m2 EXCEPT !.solver.rows = ResetRowsLoop(@, -1)]])])])

amcw_addedit(m, var, strength0) ==
    IF var = 0 THEN [m |-> m, ret |-> AMCW_FAILED]
    ELSE
      With([strength \in {IF NumLe(R(AMCW_STRONG), strength0) THEN R(AMCW_STRONG)
                          ELSE strength0} |->
          IF m.var[var].constraint # 0
          THEN amcw_setstrength(m, m.var[var].constraint, strength)
          ELSE
            With([nc \in {amcw_newconstraint(m, strength)} |->
            With([m1 \in {amcw_setrelation(nc.m, nc.cons, AMCW_EQUAL).m} |->
            With([m2 \in {amcw_addterm(m1, nc.cons, var, R(1)).m} |->
            With([m3 \in {amcw_addconstant(m2, nc.cons, NumNeg(m.var[var].value)).m} |->
            With([ad \in {amcw_add(m3, nc.cons)} |->
                IF ad.m.abort # "" THEN [m |-> ad.m, ret |-> AMCW_FAILED]
                ELSE IF ad.ret # AMCW_OK
                THEN [m |-> Abort(ad.m, "amcw_addedit: 0"), ret |-> AMCW_FAILED]
                ELSE [m |-> [ad.m EXCEPT
                               !.var[var].constraint = nc.cons,
                               !.var[var].edit_value = ad.m.var[var].value],
                      ret |-> AMCW_OK]])])])])])])

amcw_deledit(m, var) ==
    IF var = 0 THEN m
    ELSE IF m.var[var].constraint = 0 THEN m
    ELSE With([m1 \in {amcw_delconstraint(m, m.var[var].constraint)} |->
             IF m1.abort # "" THEN m1
             ELSE [m1 EXCEPT !.var[var].constraint = 0,
                             !.var[var].edit_value = R(0)]])

amcw_suggest(m, var, value) ==
    IF var = 0 THEN m
    ELSE
      With([m1 \in {IF m.var[var].constraint = 0
                    THEN amcw_addedit(m, var, R(AMCW_MEDIUM)).m ELSE m} |->
          IF m1.abort # "" THEN m1
          ELSE
            With([delta \in {NumSub(value, m1.var[var].edit_value)} |->
            With([m2 \in {amcw_delta_edit_constant(
                              [m1 EXCEPT !.var[var].edit_value = value],
                              delta, m1.var[var].constraint)} |->
            With([m3 \in {amcw_dual_optimize(m2)} |->
                IF m3.abort = "" /\ m3.solver.auto_update # 0
                THEN amcw_updatevars(m3) ELSE m3])])])])

-----------------------------------------------------------------------------
(* the client program: it creates variables, builds constraints by calls of *)
(* amcw_newconstraint, amcw_addterm, amcw_setrelation and amcw_addconstant, *)
(* and then drives the solver by the public operations                      *)

\* the objects of each pool of the model
PoolSize == 8

\* the calls the client makes after its set-up
MaxCalls == 4

\* one building call on constraint cons: <<"term", var, multiplier>>,
\* <<"relation", relation>> or <<"constant", constant>>
BuildCall(m, cons, call) ==
    CASE call[1] = "term" -> amcw_addterm(m, cons, call[2], call[3]).m
      [] call[1] = "relation" -> amcw_setrelation(m, cons, call[2]).m
      [] OTHER -> amcw_addconstant(m, cons, call[2]).m

RECURSIVE BuildLoop(_, _, _, _)
BuildLoop(m, cons, calls, i) ==
    IF i > Len(calls) THEN m
    ELSE BuildLoop(BuildCall(m, cons, calls[i]), cons, calls, i + 1)

\* amcw_newconstraint followed by the building calls
Build(m, template) ==
    With([nc \in {amcw_newconstraint(m, template.strength)} |->
        BuildLoop(nc.m, nc.cons, template.calls, 1)])

RECURSIVE NewVariables(_, _)
NewVariables(m, n) ==
    IF n = 0 THEN m ELSE NewVariables(amcw_newvariable(m).m, n - 1)

RECURSIVE BuildAll(_, _, _)
BuildAll(m, templates, i) ==
    IF i > Len(templates) THEN m
    ELSE BuildAll(Build(m, templates[i]), templates, i + 1)

\* the memory after the set-up of a scenario: a new solver, its variables
\* (handles 1..vars) and its constraints (handles 1..Len(cons)), none added.
\* A scenario with a field spent starts after that many rounds of amcw_add,
\* amcw_remove and amcw_updatevars of one required equality v = 0 on the
\* empty solver: each round hands out one Dummy marker and leaves the
\* tableau, the values and the lists as they were.
Setup(scenario) ==
    BuildAll([NewVariables(amcw_newsolver(PoolSize), scenario.vars)
                 EXCEPT !.solver.symbol_count =
                     @ + IF "spent" \in DOMAIN scenario
                         THEN scenario.spent ELSE 0],
             scenario.cons, 1)

\* the template of "a * v REL k" and of "a * v + b * w REL k"
Lin1(strength, a, v, relation, k) ==
    [strength |-> R(strength),
     calls |-> << <<"term", v, R(a)>>, <<"relation", relation>>,
                  <<"constant", R(k)>> >>]
Lin2(strength, a, v, b, w, relation, k) ==
    [strength |-> R(strength),
     calls |-> << <<"term", v, R(a)>>, <<"term", w, R(b)>>,
                  <<"relation", relation>>, <<"constant", R(k)>> >>]
\* the template of "v + k REL w"
Off(strength, v, k, relation, w) ==
    [strength |-> R(strength),
     calls |-> << <<"term", v, R(1)>>, <<"constant", R(k)>>,
                  <<"relation", relation>>, <<"term", w, R(1)>> >>]

\* The scenes of the model.  A scene is one client: the number of its
\* variables, the constraints it builds, the operations it calls (ops), the
\* variables it edits and deletes (edits), the arguments it passes
\* (strengths to amcw_setstrength, editstrengths to amcw_addedit, suggestions
\* to amcw_suggest, flags to amcw_autoupdate and amcw_resetsolver) and the
\* number of calls it makes (calls).  grid holds the values an assignment of
\* the scene's variables is drawn from when a claim compares the solver with
\* an exhaustive search.

\* required x = y, x = 5, x = 7, x <= 3 and y = 7
SceneRequired ==
    [vars |-> 2,
     cons |-> << Lin2(AMCW_REQUIRED, 1, 1, -1, 2, AMCW_EQUAL, 0),
                 Lin1(AMCW_REQUIRED, 1, 1, AMCW_EQUAL, 5),
                 Lin1(AMCW_REQUIRED, 1, 1, AMCW_EQUAL, 7),
                 Lin1(AMCW_REQUIRED, 1, 1, AMCW_LESSEQUAL, 3),
                 Lin1(AMCW_REQUIRED, 1, 2, AMCW_EQUAL, 7) >>,
     ops |-> {"add", "remove", "update_vars", "auto_update"},
     edits |-> {}, strengths |-> {}, editstrengths |-> {},
     suggestions |-> {}, flags |-> {1}, grid |-> {0, 3, 5, 7},
     calls |-> MaxCalls]

\* S2: required x >= 0 and x <= 100, weak x = 50
SceneInequality ==
    [vars |-> 1,
     cons |-> << Lin1(AMCW_REQUIRED, 1, 1, AMCW_GREATEQUAL, 0),
                 Lin1(AMCW_REQUIRED, 1, 1, AMCW_LESSEQUAL, 100),
                 Lin1(AMCW_WEAK, 1, 1, AMCW_EQUAL, 50) >>,
     ops |-> {"add", "remove", "set_strength", "del_constraint", "add_edit",
              "suggest", "del_edit", "update_vars", "auto_update",
              "reset_solver"},
     edits |-> {1}, strengths |-> {R(AMCW_MEDIUM), R(AMCW_REQUIRED)},
     editstrengths |-> {R(0), R(AMCW_STRONG)}, suggestions |-> {R(25)},
     flags |-> {0, 1}, grid |-> {0, 25, 50, 100},
     calls |-> MaxCalls - 1]

\* S6: weak x = 0 and medium x = 100, and weak x <= 10
SceneStrength ==
    [vars |-> 1,
     cons |-> << Lin1(AMCW_WEAK, 1, 1, AMCW_EQUAL, 0),
                 Lin1(AMCW_MEDIUM, 1, 1, AMCW_EQUAL, 100),
                 Lin1(AMCW_WEAK, 1, 1, AMCW_LESSEQUAL, 10) >>,
     ops |-> {"add", "remove", "set_strength", "update_vars"},
     edits |-> {}, strengths |-> {R(AMCW_WEAK), R(AMCW_STRONG)},
     editstrengths |-> {}, suggestions |-> {}, flags |-> {},
     grid |-> {0, 10, 100},
     calls |-> MaxCalls - 1]

\* S1: required x + 2 = y and y + 3 = z, an edit of x
SceneChain ==
    [vars |-> 3,
     cons |-> << Off(AMCW_REQUIRED, 1, 2, AMCW_EQUAL, 2),
                 Off(AMCW_REQUIRED, 2, 3, AMCW_EQUAL, 3) >>,
     ops |-> {"add", "add_edit", "suggest", "update_vars"},
     edits |-> {1}, strengths |-> {},
     editstrengths |-> {R(AMCW_STRONG)}, suggestions |-> {R(10), R(5)},
     flags |-> {}, grid |-> {0, 2, 5, 7, 10, 12, 15},
     calls |-> MaxCalls + 1]

\* S4 and S5: required x + y = 20 and y = 0, an edit of x
SceneRetarget ==
    [vars |-> 2,
     cons |-> << Lin2(AMCW_REQUIRED, 1, 1, 1, 2, AMCW_EQUAL, 20),
                 Lin1(AMCW_REQUIRED, 1, 2, AMCW_EQUAL, 0) >>,
     ops |-> {"add", "remove", "add_edit", "suggest", "del_edit",
              "update_vars"},
     edits |-> {1}, strengths |-> {},
     editstrengths |-> {R(0), R(AMCW_STRONG)}, suggestions |-> {R(5), R(25)},
     flags |-> {}, grid |-> {-5, 0, 5, 15, 20, 25},
     calls |-> MaxCalls]

\* one variable that no constraint of the client refers to, and its edit
SceneEdit ==
    [vars |-> 1, cons |-> << >>,
     ops |-> {"add_edit", "suggest", "del_edit", "del_variable",
              "update_vars", "auto_update"},
     edits |-> {1}, strengths |-> {},
     editstrengths |-> {R(0), R(AMCW_WEAK), R(AMCW_STRONG), R(AMCW_REQUIRED)},
     suggestions |-> {R(5)}, flags |-> {1}, grid |-> {-5, 0, 5},
     calls |-> MaxCalls - 1]

\* required x = y and x = 5, and an edit of z, which no constraint mentions
SceneBystander ==
    [vars |-> 3,
     cons |-> << Lin2(AMCW_REQUIRED, 1, 1, -1, 2, AMCW_EQUAL, 0),
                 Lin1(AMCW_REQUIRED, 1, 1, AMCW_EQUAL, 5) >>,
     ops |-> {"add", "add_edit", "suggest", "update_vars"},
     edits |-> {3}, strengths |-> {},
     editstrengths |-> {R(AMCW_STRONG)}, suggestions |-> {R(5)},
     flags |-> {}, grid |-> {0, 5},
     calls |-> MaxCalls + 1]

\* a constraint without terms and weak x = 5, built further by the client
SceneTerms ==
    [vars |-> 2,
     cons |-> << [strength |-> R(AMCW_WEAK), calls |-> << >>],
                 Lin1(AMCW_WEAK, 1, 1, AMCW_EQUAL, 5) >>,
     ops |-> {"add_term", "merge_constraint", "reset_constraint",
              "del_constraint", "use_variable", "del_variable"},
     edits |-> {1}, strengths |-> {}, editstrengths |-> {},
     suggestions |-> {}, flags |-> {}, grid |-> {0, 5},
     terms |-> {<<1, R(1)>>, <<1, R(-1)>>, <<2, R(1)>>},
     multipliers |-> {R(1)},
     calls |-> MaxCalls - 1]

\* strong x = 5 and weak y >= 3, which the client goes on building after
\* it has added them
SceneMisuse ==
    [vars |-> 2,
     cons |-> << Lin1(AMCW_STRONG, 1, 1, AMCW_EQUAL, 5),
                 Lin1(AMCW_WEAK, 1, 2, AMCW_GREATEQUAL, 3) >>,
     ops |-> {"add", "add_term", "add_constant", "set_relation",
              "merge_constraint"},
     edits |-> {}, strengths |-> {}, editstrengths |-> {},
     suggestions |-> {}, flags |-> {}, grid |-> {0, 3, 5},
     terms |-> {<<2, R(1)>>}, constants |-> {R(1)},
     relations |-> {AMCW_LESSEQUAL}, multipliers |-> {R(1)},
     calls |-> MaxCalls - 1]

\* required v7 + v3 = 10, its terms added in this order, and weak
\* v1 + 2 >= v2; the client clones them
SceneClone ==
    [vars |-> 7,
     cons |-> << Lin2(AMCW_REQUIRED, 1, 7, 1, 3, AMCW_EQUAL, 10),
                 Off(AMCW_WEAK, 1, 2, AMCW_GREATEQUAL, 2) >>,
     ops |-> {"clone_constraint", "add", "update_vars"},
     edits |-> {}, strengths |-> {}, editstrengths |-> {},
     suggestions |-> {}, flags |-> {}, grid |-> {0, 10},
     clonestrengths |-> {R(0)},
     calls |-> MaxCalls - 1]

\* required x = 0 and y = 5 on a solver whose client has added and removed
\* x = 0 until the next symbol but one is the last of the 30-bit counter
SceneWrap ==
    [vars |-> 2,
     cons |-> << Lin1(AMCW_REQUIRED, 1, 1, AMCW_EQUAL, 0),
                 Lin1(AMCW_REQUIRED, 1, 2, AMCW_EQUAL, 5) >>,
     ops |-> {"add", "remove", "update_vars"},
     edits |-> {}, strengths |-> {}, editstrengths |-> {},
     suggestions |-> {}, flags |-> {}, grid |-> {0, 5},
     spent |-> MaxSymbolId - 3,
     calls |-> MaxCalls]

\* required x <= 100, x <= 150 and x >= 200 in a solver of three variables
SceneArtificial ==
    [vars |-> 3,
     cons |-> << Lin1(AMCW_REQUIRED, 1, 1, AMCW_LESSEQUAL, 100),
                 Lin1(AMCW_REQUIRED, 1, 1, AMCW_LESSEQUAL, 150),
                 Lin1(AMCW_REQUIRED, 1, 1, AMCW_GREATEQUAL, 200) >>,
     ops |-> {"add", "remove", "update_vars"},
     edits |-> {}, strengths |-> {}, editstrengths |-> {},
     suggestions |-> {}, flags |-> {}, grid |-> {0, 100, 150, 200},
     calls |-> MaxCalls - 1]

Scenes ==
    << SceneRequired, SceneInequality, SceneStrength, SceneChain,
       SceneRetarget, SceneEdit, SceneBystander, SceneTerms, SceneMisuse,
       SceneClone, SceneWrap, SceneArtificial >>

-----------------------------------------------------------------------------
(* the state machine: one action per public operation the client calls *)

VARIABLES
    m,       \* the memory: the solver, its variables and its constraints
    scene,   \* the client, an index of Scenes
    held,    \* per variable, the references the client holds
    owned,   \* the constraints the client has built and not deleted
    calls,   \* the calls made so far
    last,    \* the last call: operation, arguments, return code
    before   \* the memory at the entry of the last call

vars == <<m, scene, held, owned, calls, last, before>>

Scene == Scenes[scene]

Call(op, cons, var, num, ret) ==
    [op |-> op, cons |-> cons, var |-> var, num |-> num, ret |-> ret]

Init ==
    /\ scene \in 1..Len(Scenes)
    /\ m = Setup(Scenes[scene])
    /\ held = [v \in 1..Scenes[scene].vars |-> 1]
    /\ owned = 1..Len(Scenes[scene].cons)
    /\ calls = 0
    /\ last = Call("", 0, 0, R(0), AMCW_OK)
    /\ before = m

\* the arguments the scene gives for the parameter name, none if it gives none
Arg(name) == IF name \in DOMAIN Scene THEN Scene[name] ELSE {}

\* the client calls op: the solver has not aborted, the client has calls left
Calls(op) == m.abort = "" /\ calls < Scene.calls /\ op \in Scene.ops

\* a call of op returns: r is its memory and its return code
Return(r, op, cons, var, num) ==
    /\ m' = r.m
    /\ last' = Call(op, cons, var, num, r.ret)
    /\ before' = m
    /\ calls' = calls + 1
    /\ UNCHANGED scene

\* the return of a void function
Void(m1) == [m |-> m1, ret |-> AMCW_OK]

Add(c) ==
    /\ Calls("add")
    /\ Return(amcw_add(m, c), "add", c, 0, R(0))
    /\ UNCHANGED <<held, owned>>

Remove(c) ==
    /\ Calls("remove")
    /\ Return(Void(amcw_remove(m, c)), "remove", c, 0, R(0))
    /\ UNCHANGED <<held, owned>>

SetStrength(c, s) ==
    /\ Calls("set_strength")
    /\ Return(amcw_setstrength(m, c, s), "set_strength", c, 0, s)
    /\ UNCHANGED <<held, owned>>

DelConstraint(c) ==
    /\ Calls("del_constraint")
    /\ Return(Void(amcw_delconstraint(m, c)), "del_constraint", c, 0, R(0))
    /\ owned' = owned \ {c}
    /\ UNCHANGED held

AddEdit(v, s) ==
    /\ Calls("add_edit")
    /\ held[v] > 0
    /\ Return(amcw_addedit(m, v, s), "add_edit", 0, v, s)
    /\ UNCHANGED <<held, owned>>

Suggest(v, x) ==
    /\ Calls("suggest")
    /\ held[v] > 0
    /\ Return(Void(amcw_suggest(m, v, x)), "suggest", 0, v, x)
    /\ UNCHANGED <<held, owned>>

DelEdit(v) ==
    /\ Calls("del_edit")
    /\ held[v] > 0
    /\ Return(Void(amcw_deledit(m, v)), "del_edit", 0, v, R(0))
    /\ UNCHANGED <<held, owned>>

DelVariable(v) ==
    /\ Calls("del_variable")
    /\ held[v] > 0
    /\ Return(Void(amcw_delvariable(m, v)), "del_variable", 0, v, R(0))
    /\ held' = [held EXCEPT ![v] = @ - 1]
    /\ UNCHANGED owned

UpdateVars ==
    /\ Calls("update_vars")
    /\ Return(Void(amcw_updatevars(m)), "update_vars", 0, 0, R(0))
    /\ UNCHANGED <<held, owned>>

AutoUpdate(f) ==
    /\ Calls("auto_update")
    /\ Return(Void(amcw_autoupdate(m, f)), "auto_update", 0, 0, R(f))
    /\ UNCHANGED <<held, owned>>

ResetSolver(f) ==
    /\ Calls("reset_solver")
    /\ Return(Void(amcw_resetsolver(m, f)), "reset_solver", 0, 0, R(f))
    /\ UNCHANGED <<held, owned>>

\* in last, cons is the constraint built and var the variable of the term
AddTerm(c, v, k) ==
    /\ Calls("add_term")
    /\ held[v] > 0
    /\ Return(amcw_addterm(m, c, v, k), "add_term", c, v, k)
    /\ UNCHANGED <<held, owned>>

AddConstant(c, k) ==
    /\ Calls("add_constant")
    /\ Return(amcw_addconstant(m, c, k), "add_constant", c, 0, k)
    /\ UNCHANGED <<held, owned>>

SetRelation(c, relation) ==
    /\ Calls("set_relation")
    /\ Return(amcw_setrelation(m, c, relation), "set_relation", c, 0,
              R(relation))
    /\ UNCHANGED <<held, owned>>

\* in last, cons is the constraint merged into and var the constraint other
MergeConstraint(c, other, k) ==
    /\ Calls("merge_constraint")
    /\ Return(amcw_mergeconstraint(m, c, other, k), "merge_constraint", c,
              other, k)
    /\ UNCHANGED <<held, owned>>

\* the clone is the first free object of conspool; in last, cons is the
\* constraint cloned and var the clone
CloneConstraint(c, s) ==
    /\ Calls("clone_constraint")
    /\ Len(m.solver.conspool) > 0
    /\ Return(Void(amcw_cloneconstraint(m, c, s).m), "clone_constraint", c,
              Head(m.solver.conspool), s)
    /\ owned' = owned \cup {Head(m.solver.conspool)}
    /\ UNCHANGED held

ResetConstraint(c) ==
    /\ Calls("reset_constraint")
    /\ Return(Void(amcw_resetconstraint(m, c)), "reset_constraint", c, 0, R(0))
    /\ UNCHANGED <<held, owned>>

UseVariable(v) ==
    /\ Calls("use_variable")
    /\ held[v] > 0
    /\ Return(Void(amcw_usevariable(m, v)), "use_variable", 0, v, R(0))
    /\ held' = [held EXCEPT ![v] = @ + 1]
    /\ UNCHANGED owned

Next ==
    \/ \E c \in owned : Add(c)
    \/ \E c \in owned : Remove(c)
    \/ \E c \in owned : \E s \in Scene.strengths : SetStrength(c, s)
    \/ \E c \in owned : DelConstraint(c)
    \/ \E v \in Scene.edits : \E s \in Scene.editstrengths : AddEdit(v, s)
    \/ \E v \in Scene.edits : \E x \in Scene.suggestions : Suggest(v, x)
    \/ \E v \in Scene.edits : DelEdit(v)
    \/ \E v \in Scene.edits : DelVariable(v)
    \/ UpdateVars
    \/ \E f \in Scene.flags : AutoUpdate(f)
    \/ \E f \in Scene.flags : ResetSolver(f)
    \/ \E c \in owned : \E t \in Arg("terms") : AddTerm(c, t[1], t[2])
    \/ \E c \in owned : \E k \in Arg("constants") : AddConstant(c, k)
    \/ \E c \in owned : \E r \in Arg("relations") : SetRelation(c, r)
    \/ \E c, other \in owned : \E k \in Arg("multipliers") :
          MergeConstraint(c, other, k)
    \/ \E c \in owned : \E s \in Arg("clonestrengths") : CloneConstraint(c, s)
    \/ \E c \in owned : ResetConstraint(c)
    \/ \E v \in Scene.edits : UseVariable(v)

Spec == Init /\ [][Next]_vars

-----------------------------------------------------------------------------
(* One table of the solver by itself, driven as amcw_addvar, amcw_putrow,
   amcw_takerow and the hash functions drive the tables of the solver.
   Under TableSpec the variable m is the amcw_Table of term entries, before
   is the reference map from the ids of the keys that are present to their
   payloads, held is the table before the last operation, last names the
   operation and its key, and calls counts the operations.  The ids of TableKeys collide in a table of 4 slots (1, 5
   and 9) and of 8 slots (1 and 9), and five keys make the table grow. *)
MaxTableCalls == 7
TableKeys == {1, 2, 3, 5, 9}

TableInit ==
    /\ m = amcw_inittable("amcw_Term")
    /\ before = [k \in {} |-> R(0)]
    /\ scene = 0
    /\ held = m
    /\ owned = {}
    /\ calls = 0
    /\ last = Call("", 0, 0, R(0), AMCW_OK)

TableNext ==
    /\ calls < MaxTableCalls
    /\ calls' = calls + 1
    /\ held' = m
    /\ UNCHANGED <<scene, owned>>
    /\ \E k \in TableKeys :
          \* amcw_settable(t, key): a new entry has its payload zeroed
          \/ /\ m' = amcw_settable(m, [id |-> k, type |-> AMCW_EXTERNAL]).t
             /\ before' = IF k \in DOMAIN before THEN before
                          ELSE [j \in DOMAIN before \cup {k} |->
                                   IF j = k THEN R(0) ELSE before[j]]
             /\ last' = Call("settable", k, 0, R(0), AMCW_OK)
          \* amcw_settable(t, key) and a write of the payload of the entry
          \/ \E v \in {R(1)} :
                /\ m' = With([r \in {amcw_settable(m, [id |-> k,
                                                       type |-> AMCW_EXTERNAL])} |->
                            [r.t EXCEPT !.hash[r.e + 1].val = v]])
                /\ before' = [j \in DOMAIN before \cup {k} |->
                                 IF j = k THEN v ELSE before[j]]
                /\ last' = Call("write", k, 0, v, AMCW_OK)
          \* amcw_delkey(t, entry) of the entry amcw_gettable finds
          \/ /\ amcw_gettable(m, [id |-> k, type |-> AMCW_EXTERNAL]) # -1
             /\ m' = amcw_delkey(m, amcw_gettable(m, [id |-> k,
                                                     type |-> AMCW_EXTERNAL]))
             /\ before' = [j \in DOMAIN before \ {k} |-> before[j]]
             /\ last' = Call("delkey", k, 0, R(0), AMCW_OK)

TableSpec == TableInit /\ [][TableNext]_vars

-----------------------------------------------------------------------------
(* what a client observes, and the exhaustive search the claims compare it *)
(* with                                                                    *)

Range(s) == {s[i] : i \in 1..Len(s)}

\* the constraints registered with the solver, edit constraints included
Registered(mm) ==
    {mm.solver.constraints.hash[e + 1].val : e \in Range(Entries(mm.solver.constraints))}

Installed(mm) == {c \in Registered(mm) : amcw_hasconstraint(mm, c)}

IsRequired(mm, c) == NumLe(R(AMCW_REQUIRED), mm.cons[c].strength)

Required(mm) == {c \in Installed(mm) : IsRequired(mm, c)}

\* the variables whose edit constraint is c
EditOf(mm, c) == {v \in 1..Scene.vars : mm.var[v].constraint = c}

IsEdit(mm, c) == EditOf(mm, c) # {}

\* the variables of the client that are not freed
LiveVars(mm) == {v \in 1..Scene.vars : mm.var[v].refcount > 0}

\* the constant of the row of v's symbol, 0 when the tableau has no such row
RowConstant(mm, v) ==
    With([row \in {amcw_gettable(mm.solver.rows, mm.var[v].sym)} |->
        IF row # -1 THEN mm.solver.rows.hash[row + 1].val.constant ELSE R(0)])

\* the values amcw_value reads
Published(mm) == [v \in 1..Scene.vars |-> amcw_value(mm, v)]

\* the values the next amcw_updatevars publishes
Updated(mm) == Published(amcw_updatevars(mm))

Assignments == [1..Scene.vars -> {R(k) : k \in Scene.grid}]

\* the sum of the terms of a constraint's expression from slot e on
RECURSIVE TermSum(_, _, _, _)
TermSum(mm, terms, val, e) ==
    With([n \in {amcw_nextentry(terms, e)} |->
        IF n = -1 THEN R(0)
        ELSE NumAdd(NumMul(terms.hash[n + 1].val,
                           val[amcw_sym2var(mm, terms.hash[n + 1].key)]),
                    TermSum(mm, terms, val, n))])

\* the expression of constraint c at the assignment val; amcw_setrelation and
\* amcw_addterm store it so that c reads expression = 0 or expression >= 0.
\* An edit constraint reads var = edit_value.
Expression(mm, c, val) ==
    IF IsEdit(mm, c)
    THEN With([v \in {CHOOSE v \in EditOf(mm, c) : TRUE} |->
             NumSub(val[v], mm.var[v].edit_value)])
    ELSE NumAdd(mm.cons[c].expression.constant,
                TermSum(mm, mm.cons[c].expression.terms, val, -1))

\* c holds at val within AMCW_NUM_EPS
Holds(mm, c, val) ==
    With([e \in {Expression(mm, c, val)} |->
        IF mm.cons[c].relation = AMCW_EQUAL THEN BelowEps(e)
        ELSE NumLe(R(0), e) \/ BelowEps(e)])

Violation(mm, c, val) ==
    With([e \in {Expression(mm, c, val)} |->
        IF mm.cons[c].relation = AMCW_EQUAL THEN NumAbs(e)
        ELSE IF NumLt(e, R(0)) THEN NumNeg(e) ELSE R(0)])

Feasible(mm, cs, val) == \A c \in cs : Holds(mm, c, val)

RECURSIVE CostSum(_, _, _)
CostSum(mm, cs, val) ==
    IF cs = {} THEN R(0)
    ELSE With([c \in {CHOOSE c \in cs : TRUE} |->
             NumAdd(NumMul(mm.cons[c].strength, Violation(mm, c, val)),
                    CostSum(mm, cs \ {c}, val))])

\* the sum over the installed non-required constraints of strength times
\* violation
Cost(mm, val) == CostSum(mm, Installed(mm) \ Required(mm), val)

\* |a - b| < AMCW_NUM_EPS at every variable
Near(val, other) == \A v \in 1..Scene.vars : amcw_approx(val[v], other[v])

\* the symbols of the tableau: row keys, row terms and objective terms
RowSymbols(mm) ==
    UNION {{mm.solver.rows.hash[r + 1].key}
           \cup {mm.solver.rows.hash[r + 1].val.terms.hash[t + 1].key :
                   t \in Range(Entries(mm.solver.rows.hash[r + 1].val.terms))} :
           r \in Range(Entries(mm.solver.rows))}

ObjectiveSymbols(mm) ==
    {mm.solver.objective.terms.hash[t + 1].key :
       t \in Range(Entries(mm.solver.objective.terms))}

TableauSymbols(mm) == RowSymbols(mm) \cup ObjectiveSymbols(mm)

\* row plus, for each constraint of cs, its strength times each of its Error
\* symbols, a basic symbol replaced by its row: what amcw_makerow adds to the
\* objective for the constraints of cs
RECURSIVE ErrorSum(_, _, _)
ErrorSum(mm, cs, row) ==
    IF cs = {} THEN row
    ELSE With([c \in {CHOOSE c \in cs : TRUE} |->
         With([r1 \in {IF amcw_iserror(mm.cons[c].marker)
                       THEN amcw_mergerow(mm, row, mm.cons[c].marker,
                                          mm.cons[c].strength)
                       ELSE row} |->
             ErrorSum(mm, cs \ {c},
                      IF amcw_iserror(mm.cons[c].other)
                      THEN amcw_mergerow(mm, r1, mm.cons[c].other,
                                         mm.cons[c].strength)
                      ELSE r1)])])

\* no assignment satisfies the installed required constraints together with
\* c.  An edit constraint is left out: one that is required (amcw_addedit
\* with strength 0) is held by the tableau at the value amcw_setstrength
\* re-added it with plus the later suggestions, which no field keeps.
RequiredInfeasible(mm, c) ==
    \A val \in Assignments :
        ~Feasible(mm, {d \in Required(mm) : ~IsEdit(mm, d)} \cup {c}, val)

\* no assignment that satisfies the installed required constraints costs less
\* than the one the next amcw_updatevars publishes
Optimal(mm) ==
    \A val \in Assignments :
        Feasible(mm, Required(mm), val) => NumLe(Cost(mm, Updated(mm)), Cost(mm, val))

\* a strength below AMCW_REQUIRED that amcw_setstrength does not read as 0
NonRequired(s) == ~NumLe(R(AMCW_REQUIRED), s) /\ ~amcw_nearzero(s)

\* the memory after amcw_remove(c), cons->strength = s and amcw_add(c)
Readded(mm, c, s) ==
    amcw_add([amcw_remove(mm, c) EXCEPT !.cons[c].strength = s], c).m

\* the last call was op and returned, no assert of the solver having failed
Returned(op) == last.op = op /\ m.abort = ""

-----------------------------------------------------------------------------
(* the claims *)

\* C1: after an add that returns OK, followed by update_vars, every installed
\* constraint of strength REQUIRED is satisfied within EPS, according to its
\* relation, by the published values of its variables.
FeasibilityOfRequired ==
    (Returned("add") /\ last.ret = AMCW_OK)
        => Feasible(m, Required(m), Updated(m))

\* C2: after an add, remove, suggest or set_strength that returns normally,
\* followed by update_vars, the published assignment minimizes the sum over
\* the installed non-required constraints of strength times violation among
\* the assignments that satisfy the installed required constraints.
WeightedOptimality ==
    (last.op \in {"add", "remove", "suggest", "set_strength"} /\ m.abort = "")
        => Optimal(m)

\* C3: immediately after update_vars returns, the value of every live
\* variable is the constant of the tableau row keyed by its symbol, and 0
\* when there is no such row.
PublishedIsRowConstant ==
    Returned("update_vars")
        => \A v \in LiveVars(m) : amcw_value(m, v) = RowConstant(m, v)

\* C4: when x has an edit of strength STRONG, the installed required
\* constraints admit x = t and no other non-required constraint is
\* installed, then after suggest(x, t) and update_vars the value of x is t
\* and the values of the other variables satisfy the required constraints.
SuggestReachesTarget ==
    (/\ Returned("suggest")
     /\ amcw_hasedit(before, last.var)
     /\ before.cons[before.var[last.var].constraint].strength = R(AMCW_STRONG)
     /\ Installed(m) \ Required(m) = {m.var[last.var].constraint}
     /\ \E val \in Assignments :
            val[last.var] = last.num /\ Feasible(m, Required(m), val))
        => /\ Updated(m)[last.var] = last.num
           /\ Feasible(m, Required(m), Updated(m))

\* C5: when add(c) returns UNSATISFIED or UNBOUND, c has no marker and no
\* other symbol, the symbol counter is the one at the entry of add, the
\* tableau holds no symbol made by the call (c's marker, c's other, the
\* artificial symbol), the objective weighs the published solution as before,
\* and a following update_vars publishes what it would have published before
\* the call.
FailedAddRollsBack ==
    (Returned("add") /\ last.ret \in {AMCW_UNSATISFIED, AMCW_UNBOUND})
        => /\ m.cons[last.cons].marker = amcw_null
           /\ m.cons[last.cons].other = amcw_null
           /\ m.solver.symbol_count = before.solver.symbol_count
           /\ \A s \in TableauSymbols(m) : s.id <= before.solver.symbol_count
           /\ Cost(m, Updated(m)) = Cost(before, Updated(before))
           /\ Updated(m) = Updated(before)

AddRemoveReversible ==
    (Returned("add") /\ last.ret = AMCW_OK)
        => Near(Updated(amcw_remove(m, last.cons)), Updated(before))

\* C8: set_strength(c, s) on an installed non-required constraint c with a
\* non-required s leaves the solver with the same objective value and the
\* same published solution as remove(c) followed by add(c) at strength s.
SetStrengthIsReadd ==
    (/\ Returned("set_strength")
     /\ amcw_hasconstraint(before, last.cons)
     /\ ~IsRequired(before, last.cons)
     /\ NonRequired(last.num))
        => /\ Updated(m) = Updated(Readded(before, last.cons, last.num))
           /\ m.solver.objective.constant
                = Readded(before, last.cons, last.num).solver.objective.constant

\* C9: after add_edit(v, s) the strength of v's edit constraint is
\* min(s, STRONG), after a suggest that creates the edit it is MEDIUM, and no
\* edit constraint has strength REQUIRED.
EditStrengthCapped ==
    /\ (Returned("add_edit") /\ last.ret = AMCW_OK)
          => m.cons[m.var[last.var].constraint].strength
               = (IF NumLe(R(AMCW_STRONG), last.num) THEN R(AMCW_STRONG)
                  ELSE last.num)
    /\ (Returned("suggest") /\ ~amcw_hasedit(before, last.var))
          => m.cons[m.var[last.var].constraint].strength = R(AMCW_MEDIUM)
    /\ m.abort = ""
          => \A v \in LiveVars(m) :
                amcw_hasedit(m, v) => ~IsRequired(m, m.var[v].constraint)

\* C10: del_variable(v) on a variable that has an edit constraint and that no
\* other constraint refers to uninstalls the edit constraint: afterwards it
\* has no marker, and the tableau holds neither its marker nor its other
\* symbol.
DelVariableRemovesEdit ==
    (/\ Returned("del_variable")
     /\ amcw_hasedit(before, last.var)
     /\ before.var[last.var].refcount = 2)
        => /\ ~amcw_hasconstraint(m, before.var[last.var].constraint)
           /\ before.cons[before.var[last.var].constraint].marker
                \notin TableauSymbols(m)
           /\ before.cons[before.var[last.var].constraint].other
                \notin TableauSymbols(m)

\* C11: the refcount of a live variable v is the number of references held
\* by callers plus the number of constraint expressions that contain a term
\* for v.
RefcountCountsReferences ==
    m.abort = ""
        => \A v \in 1..Scene.vars :
              (held[v] > 0 \/ m.var[v].refcount > 0)
                 => m.var[v].refcount
                      = held[v]
                          + Cardinality({c \in Registered(m) :
                               amcw_gettable(m.cons[c].expression.terms,
                                             m.var[v].sym) # -1})

\* C12: no two distinct live symbols have the same id, the live symbols being
\* the symbols of the live variables, the marker and other of the installed
\* constraints and the symbols of the tableau.
LiveSymbolsDistinct ==
    m.abort = ""
        => \A s, t \in ({m.var[v].sym : v \in LiveVars(m)}
                          \cup {m.cons[c].marker : c \in Installed(m)}
                          \cup {m.cons[c].other : c \in Installed(m)}
                          \cup TableauSymbols(m)) \ {amcw_null} :
              s.id = t.id => s = t

\* C13: clone_constraint(c, 0) yields an uninstalled constraint with the
\* stored terms, constant, relation and strength of c, and from the state
\* after the call add(clone) and add(c) return the same code and lead to the
\* same published solution.
CloneInstallsAlike ==
    Returned("clone_constraint")
        => /\ ~amcw_hasconstraint(m, last.var)
           /\ {<<m.cons[last.var].expression.terms.hash[t + 1].key,
                 m.cons[last.var].expression.terms.hash[t + 1].val>> :
                 t \in Range(Entries(m.cons[last.var].expression.terms))}
                = {<<m.cons[last.cons].expression.terms.hash[t + 1].key,
                     m.cons[last.cons].expression.terms.hash[t + 1].val>> :
                     t \in Range(Entries(m.cons[last.cons].expression.terms))}
           /\ m.cons[last.var].expression.constant
                = m.cons[last.cons].expression.constant
           /\ m.cons[last.var].relation = m.cons[last.cons].relation
           /\ m.cons[last.var].strength = m.cons[last.cons].strength
           /\ ~amcw_hasconstraint(m, last.cons)
                 => /\ amcw_add(m, last.var).ret = amcw_add(m, last.cons).ret
                    /\ Updated(amcw_add(m, last.var).m)
                         = Updated(amcw_add(m, last.cons).m)

\* C14: while auto-update is on, after add (with any result code), remove,
\* suggest, set_strength, add_edit, del_edit or del_constraint returns, the
\* dirty list is empty and no variable is flagged dirty. The call starts from
\* a state whose dirty list is empty.
AutoUpdateDrainsDirty ==
    (/\ m.abort = ""
     /\ before.solver.auto_update # 0
     /\ before.solver.dirty_vars.id = 0
     /\ last.op \in {"add", "remove", "suggest", "set_strength", "add_edit",
                     "del_edit", "del_constraint"})
        => /\ m.solver.dirty_vars.id = 0
           /\ \A v \in LiveVars(m) : m.var[v].dirty_next = amcw_null

\* C15: on an installed constraint c, add_term, add_constant, set_relation,
\* merge_constraint(c, other, k) and add(c) return FAILED and change nothing:
\* the memory after the call (expressions, relations, strengths, refcounts,
\* tableau) is the memory before it.
InstalledConstraintFrozen ==
    (/\ m.abort = ""
     /\ last.op \in {"add_term", "add_constant", "set_relation",
                     "merge_constraint", "add"}
     /\ amcw_hasconstraint(before, last.cons))
        => last.ret = AMCW_FAILED /\ m = before

\* an installed constraint was the target of add_term
InstalledConstraintTouched ==
    /\ Returned("add_term")
    /\ amcw_hasconstraint(before, last.cons)
    /\ before.var[last.var].refcount > 0

\* C16: after reset_solver(s, 0) no variable has an edit and every non-edit
\* constraint that was installed is still installed with the marker it had;
\* after reset_solver(s, 1) no constraint is installed, the rows table has no
\* entries and the objective row has no terms and constant 0.
ResetSolverClears ==
    /\ (Returned("reset_solver") /\ last.num = R(0))
          => /\ \A v \in LiveVars(m) : ~amcw_hasedit(m, v)
             /\ \A c \in Installed(before) :
                   ~IsEdit(before, c)
                      => /\ amcw_hasconstraint(m, c)
                         /\ m.cons[c].marker = before.cons[c].marker
    /\ (Returned("reset_solver") /\ last.num = R(1))
          => /\ Installed(m) = {}
             /\ Entries(m.solver.rows) = << >>
             /\ Entries(m.solver.objective.terms) = << >>
             /\ m.solver.objective.constant = R(0)

\* reset_solver(s, 1) returned on a solver that held an edit and an installed
\* constraint that is no edit
ResetSolverDroppedAll ==
    /\ Returned("reset_solver")
    /\ last.num = R(1)
    /\ \E v \in LiveVars(before) : amcw_hasedit(before, v)
    /\ \E c \in Installed(before) : ~IsEdit(before, c)

UpdateVarsIdempotent ==
    Returned("update_vars") => amcw_updatevars(m) = m

\* update_vars returned after publishing the values of two or more variables
UpdateVarsPublished ==
    /\ Returned("update_vars")
    /\ before.solver.dirty_vars.id # 0
    /\ Cardinality({v \in LiveVars(before) :
                      before.var[v].dirty_next # amcw_null}) > 1
    /\ Published(m) # Published(before)

\* C19 (as stated): no key of the rows table is a symbol of kind Dummy.
NoDummyRowKey ==
    m.abort = ""
        => \A r \in Range(Entries(m.solver.rows)) :
              ~amcw_isdummy(m.solver.rows.hash[r + 1].key)

\* C19: a key of the rows table is a symbol of kind Dummy only as the marker
\* of an installed required constraint, and then its row has no term of
\* another kind than Dummy: the row of a required equality that was
\* redundant with the installed required constraints when it was added.
DummyKeysAreRedundant ==
    m.abort = ""
        => \A r \in Range(Entries(m.solver.rows)) :
              amcw_isdummy(m.solver.rows.hash[r + 1].key)
                 => /\ \A t \in Range(Entries(m.solver.rows.hash[r + 1].val.terms)) :
                          amcw_isdummy(m.solver.rows.hash[r + 1].val.terms.hash[t + 1].key)
                    /\ \E c \in Required(m) :
                          m.cons[c].marker = m.solver.rows.hash[r + 1].key

\* add of a required equality returned OK and left its Dummy marker as the
\* key of a row
RedundantEqualityAdded ==
    /\ Returned("add")
    /\ last.ret = AMCW_OK
    /\ amcw_isdummy(m.cons[last.cons].marker)
    /\ Cardinality(Required(before)) > 1
    /\ \E r \in Range(Entries(m.solver.rows)) :
          m.solver.rows.hash[r + 1].key = m.cons[last.cons].marker

\* C20: whenever a public operation has returned, no symbol that is a key of
\* the rows table occurs as a term of a row (its own or another) or of the
\* objective row. A symbol is what the tables look up: its id.
BasicSymbolsNotTerms ==
    m.abort = ""
        => {m.solver.rows.hash[r + 1].key.id : r \in Range(Entries(m.solver.rows))}
             \cap ({s.id : s \in ObjectiveSymbols(m)}
                     \cup UNION {{m.solver.rows.hash[r + 1].val.terms.hash[t + 1].key.id :
                                    t \in Range(Entries(m.solver.rows.hash[r + 1].val.terms))} :
                                 r \in Range(Entries(m.solver.rows))})
             = {}

\* C21: the infeasible list is empty at the start of every iteration of
\* amcw_optimize (its assertion never fails) and whenever add, remove,
\* set_strength or suggest has returned.
InfeasibleListEmpty ==
    /\ m.abort # "amcw_optimize: infeasible_rows.id == 0"
    /\ (m.abort = "" /\ last.op \in {"add", "remove", "set_strength", "suggest"})
          => m.solver.infeasible_rows.id = 0

\* C22: whenever amcw_optimize, called from add, remove or set_strength,
\* finds an entering symbol, a row with a Slack or Error key holds that
\* symbol with a negative coefficient: a leaving row exists and the
\* assertion exit.id != 0 never fails.
LeavingRowExists ==
    last.op \in {"add", "remove", "set_strength"}
        => m.abort # "amcw_optimize: exit.id != 0"

\* C23: whenever amcw_dual_optimize, called from suggest, takes an infeasible
\* row, the row has a term that is not Dummy with a positive coefficient
\* (the assertion enter.id != 0 never fails), and suggest on a variable with
\* an edit never fails.
EnteringSymbolExists ==
    (last.op = "suggest" /\ amcw_hasedit(before, last.var))
        => m.abort = ""

ObjectiveIsWeightedErrors ==
    m.abort = ""
        => /\ {<<m.solver.objective.terms.hash[t + 1].key,
                 m.solver.objective.terms.hash[t + 1].val>> :
                 t \in Range(Entries(m.solver.objective.terms))}
                = {<<ErrorSum(m, Installed(m) \ Required(m), amcw_initrow).terms.hash[t + 1].key,
                     ErrorSum(m, Installed(m) \ Required(m), amcw_initrow).terms.hash[t + 1].val>> :
                     t \in Range(Entries(ErrorSum(m, Installed(m) \ Required(m),
                                                  amcw_initrow).terms))}
           /\ m.solver.objective.constant
                = ErrorSum(m, Installed(m) \ Required(m), amcw_initrow).constant

\* C26: after every sequence of settable, payload writes and delkey the table
\* agrees with the reference map: amcw_gettable finds an entry for a key
\* exactly if the key is present, the entry holds the key and the payload
\* last written, count is the number of present keys, and amcw_nextentry
\* yields every present key exactly once.
TableIsMap ==
    /\ \A k \in TableKeys :
          With([e \in {amcw_gettable(m, [id |-> k, type |-> AMCW_EXTERNAL])} |->
              IF k \in DOMAIN before
              THEN e # -1 /\ m.hash[e + 1].key.id = k
                          /\ m.hash[e + 1].val = before[k]
              ELSE e = -1])
    /\ m.count = Cardinality(DOMAIN before)
    /\ Len(Entries(m)) = Cardinality(DOMAIN before)
    /\ {m.hash[Entries(m)[i] + 1].key.id : i \in 1..Len(Entries(m))}
          = DOMAIN before

\* a key was set in a grown table at its main position, a deleted slot that
\* still carried its chain link, while another key is stored off its own
\* main position
DeletedSlotReused ==
    /\ last.op \in {"settable", "write"}
    /\ m.size = 2 * AMCW_MIN_HASHSIZE
    /\ held.hash[(last.cons % held.size) + 1].key.id = 0
    /\ held.hash[(last.cons % held.size) + 1].next # 0
    /\ m.hash[(last.cons % m.size) + 1].key.id = last.cons
    /\ \E i \in 1..m.size :
          m.hash[i].key.id # 0 /\ m.hash[i].key.id % m.size # i - 1

\* C27: when remove(c) finds c's marker not basic, amcw_get_leaving_row
\* returns, if any row (whatever the kind of its key) holds the marker with
\* a negative coefficient, a row minimizing -constant/coefficient among
\* those; otherwise, if a row with a non-external key holds it with a
\* positive coefficient, a row minimizing constant/coefficient among those;
\* otherwise a row with an external key.
LeavingRowAnyKey ==
    (/\ last.op = "remove"
     /\ before.cons[last.cons].marker.id # 0
     /\ amcw_gettable(before.solver.rows, before.cons[last.cons].marker) = -1)
    => With([rows \in {before.solver.rows} |->
       With([exit \in {amcw_get_leaving_row(before,
                                            before.cons[last.cons].marker)} |->
       With([cf \in {[r \in {r \in Range(Entries(rows)) :
                              amcw_gettable(rows.hash[r + 1].val.terms,
                                  before.cons[last.cons].marker) # -1} |->
                        rows.hash[r + 1].val.terms.hash[
                            amcw_gettable(rows.hash[r + 1].val.terms,
                                before.cons[last.cons].marker) + 1].val]} |->
           IF \E r \in DOMAIN cf : NumLt(cf[r], R(0))
           THEN \E r \in DOMAIN cf :
                   /\ rows.hash[r + 1].key = exit
                   /\ NumLt(cf[r], R(0))
                   /\ \A q \in DOMAIN cf :
                         NumLt(cf[q], R(0))
                             => NumLe(NumDiv(NumNeg(rows.hash[r + 1].val.constant), cf[r]),
                                      NumDiv(NumNeg(rows.hash[q + 1].val.constant), cf[q]))
           ELSE IF \E r \in DOMAIN cf : ~amcw_isexternal(rows.hash[r + 1].key)
           THEN \E r \in DOMAIN cf :
                   /\ rows.hash[r + 1].key = exit
                   /\ ~amcw_isexternal(rows.hash[r + 1].key)
                   /\ \A q \in DOMAIN cf :
                         ~amcw_isexternal(rows.hash[q + 1].key)
                             => NumLe(NumDiv(rows.hash[r + 1].val.constant, cf[r]),
                                      NumDiv(rows.hash[q + 1].val.constant, cf[q]))
           ELSE \E r \in DOMAIN cf :
                   rows.hash[r + 1].key = exit /\ amcw_isexternal(exit)])])])

\* C27 with the rows of an external key left out of the first two groups:
\* among the rows that hold the marker and have a non-external key, a row
\* with a negative coefficient minimizing -constant/coefficient if there is
\* one, otherwise a row minimizing constant/coefficient; a row with an
\* external key only when no other row holds the marker, and the null symbol
\* when no row holds it.
LeavingRowByKeyKind ==
    (/\ last.op = "remove"
     /\ before.cons[last.cons].marker.id # 0
     /\ amcw_gettable(before.solver.rows, before.cons[last.cons].marker) = -1)
    => With([rows \in {before.solver.rows} |->
       With([exit \in {amcw_get_leaving_row(before,
                                            before.cons[last.cons].marker)} |->
       With([cf \in {[r \in {r \in Range(Entries(rows)) :
                              amcw_gettable(rows.hash[r + 1].val.terms,
                                  before.cons[last.cons].marker) # -1} |->
                        rows.hash[r + 1].val.terms.hash[
                            amcw_gettable(rows.hash[r + 1].val.terms,
                                before.cons[last.cons].marker) + 1].val]} |->
       With([inner \in {{r \in DOMAIN cf :
                           ~amcw_isexternal(rows.hash[r + 1].key)}} |->
           IF \E r \in inner : NumLt(cf[r], R(0))
           THEN \E r \in inner :
                   /\ rows.hash[r + 1].key = exit
                   /\ NumLt(cf[r], R(0))
                   /\ \A q \in inner :
                         NumLt(cf[q], R(0))
                             => NumLe(NumDiv(NumNeg(rows.hash[r + 1].val.constant), cf[r]),
                                      NumDiv(NumNeg(rows.hash[q + 1].val.constant), cf[q]))
           ELSE IF inner # {}
           THEN \E r \in inner :
                   /\ rows.hash[r + 1].key = exit
                   /\ \A q \in inner :
                         NumLe(NumDiv(rows.hash[r + 1].val.constant, cf[r]),
                               NumDiv(rows.hash[q + 1].val.constant, cf[q]))
           ELSE IF DOMAIN cf = {} THEN exit = amcw_null
           ELSE \E r \in DOMAIN cf :
                   rows.hash[r + 1].key = exit /\ amcw_isexternal(exit)])])])])

\* remove(c) returned after it chose the leaving row among several rows
\* that hold the marker, one of them the row of a variable
LeavingRowChosen ==
    /\ Returned("remove")
    /\ before.cons[last.cons].marker.id # 0
    /\ amcw_gettable(before.solver.rows, before.cons[last.cons].marker) = -1
    /\ \E r, q \in Range(Entries(before.solver.rows)) :
          /\ r # q
          /\ amcw_isexternal(before.solver.rows.hash[r + 1].key)
          /\ ~amcw_isexternal(before.solver.rows.hash[q + 1].key)
          /\ amcw_gettable(before.solver.rows.hash[r + 1].val.terms,
                           before.cons[last.cons].marker) # -1
          /\ amcw_gettable(before.solver.rows.hash[q + 1].val.terms,
                           before.cons[last.cons].marker) # -1

\* C28: add_edit(v, strength) on a variable without an edit returns OK with
\* no assertion failing, and afterwards v has an edit whose constraint is
\* installed; add of a constraint that is not required and not installed
\* returns OK.
AddEditInstalls ==
    /\ (last.op = "add_edit" /\ ~amcw_hasedit(before, last.var))
          => /\ m.abort = ""
             /\ last.ret = AMCW_OK
             /\ amcw_hasedit(m, last.var)
             /\ amcw_hasconstraint(m, m.var[last.var].constraint)
    /\ (/\ last.op = "add"
        /\ ~amcw_hasconstraint(before, last.cons)
        /\ ~IsRequired(before, last.cons))
          => m.abort = "" /\ last.ret = AMCW_OK

\* C30: set_strength(c, s) on a constraint that is not installed changes
\* only the strength of c: c stays uninstalled and the tableau, the
\* objective row, the symbol counter and everything else are as before.
SetStrengthUninstalled ==
    (/\ last.op = "set_strength"
     /\ m.abort = ""
     /\ ~amcw_hasconstraint(before, last.cons))
        => m = [before EXCEPT !.cons[last.cons].strength =
                                  m.cons[last.cons].strength]

\* C29: at every state every symbol on the dirty list, the head and each
\* element reached through dirty_next, is the key of a variable in the vars
\* table, so that amcw_updatevars finds a variable for each element.
DirtyListLive ==
    m.abort = "" => amcw_updatevars(m).abort = ""

=============================================================================
